---- MODULE Spec2Model ----
(***************************************************************************)
(* A model of the opencode-agent-skills plugin (src/src/plugin.ts):        *)
(* skill discovery and the name-keyed registry, identifier resolution,     *)
(* the path-safety check of read_skill_file, and the per-session           *)
(* injection protocol (chat.message, session.compacted, use_skill,         *)
(* read_skill_file) with its asynchronous steps.                           *)
(***************************************************************************)
EXTENDS Integers, Sequences, FiniteSets, TLC

VARIABLES
    parse,           \* one parseSkillFile call: the manifest text and its result
    fsys,            \* what the discovery scans find on disk (input)
    phase,           \* "boot" before SkillsPlugin ran discovery, "ready" after
    skillsByName,    \* the registry: an insertion-ordered Map name -> skill
    superpowersModeEnabled,  \* OPENCODE_AGENT_SKILLS_SUPERPOWERS_MODE === 'true'
    newestFirst,     \* order in which the transport lists a session's messages
    history,         \* transport: the messages of each session, oldest first
    sessionModels,   \* Map sessionID -> cached model
    injectedSessions,\* Set of sessionIDs marked initialized
    hs,              \* the handler invocations in flight (one record per slot)
    prompts,         \* log of client.session.prompt calls, per session
    msgModel,        \* model carried by the latest chat.message that had one
    started,         \* number of handler invocations started so far
    lastResolve,     \* the latest resolveSkill query and its result
    lastScan,        \* the latest slow-path scan of getCurrentModel
    firstSeen,       \* per session: was its history empty at its first chat.message
    compactions,     \* per session: session.compacted events received
    plugins,         \* the plugin files on disk: installed list, marketplace manifest, cache
    roots,           \* directory trees handed to findSkillsRecursive (input)
    scan             \* the scans of roots done so far, and what they read and returned

vars == <<parse, fsys, phase, skillsByName, superpowersModeEnabled, newestFirst,
          history, sessionModels, injectedSessions, hs, prompts, msgModel,
          started, lastResolve, lastScan, firstSeen, compactions,
          plugins, roots, scan>>

-----------------------------------------------------------------------------
(* Strings.  A token is an opaque TLA+ string; where the code looks inside  *)
(* a string (path.resolve, startsWith, the name pattern) the string is the  *)
(* sequence of its characters.                                              *)

Chars ==
    ("w" :> <<"w">>) @@
    ("h" :> <<"h">>) @@
    (".opencode" :> <<".", "o", "p", "e", "n", "c", "o", "d", "e">>) @@
    (".claude" :> <<".", "c", "l", "a", "u", "d", "e">>) @@
    (".config" :> <<".", "c", "o", "n", "f", "i", "g">>) @@
    ("opencode" :> <<"o", "p", "e", "n", "c", "o", "d", "e">>) @@
    ("skills" :> <<"s", "k", "i", "l", "l", "s">>) @@
    ("plugins" :> <<"p", "l", "u", "g", "i", "n", "s">>) @@
    ("cache" :> <<"c", "a", "c", "h", "e">>) @@
    ("marketplaces" :> <<"m", "a", "r", "k", "e", "t", "p", "l", "a", "c", "e", "s">>) @@
    ("plug" :> <<"p", "l", "u", "g">>) @@
    ("mkt" :> <<"m", "k", "t">>) @@
    ("SKILL.md" :> <<"S", "K", "I", "L", "L", ".", "m", "d">>) @@
    ("a" :> <<"a">>) @@
    ("b" :> <<"b">>) @@
    ("A" :> <<"A">>) @@
    ("d" :> <<"d">>) @@
    ("name" :> <<"n", "a", "m", "e">>) @@
    ("description" :> <<"d", "e", "s", "c", "r", "i", "p", "t", "i", "o", "n">>) @@
    ("metadata" :> <<"m", "e", "t", "a", "d", "a", "t", "a">>) @@
    ("" :> <<>>) @@
    ("0" :> <<"0">>) @@
    ("-" :> <<"-">>) @@
    ("a-0" :> <<"a", "-", "0">>) @@
    ("a_" :> <<"a", "_">>) @@
    ("a " :> <<"a", " ">>) @@
    ("aA" :> <<"a", "A">>) @@
    ("U+00E9" :> <<"U+00E9">>) @@
    ("aU+0663" :> <<"a", "U+0663">>) @@
    ("U+00B2" :> <<"U+00B2">>) @@
    ("U+00C9" :> <<"U+00C9">>) @@
    ("a.a" :> <<"a", ".", "a">>) @@
    (".a" :> <<".", "a">>) @@
    ("scripts" :> <<"s", "c", "r", "i", "p", "t", "s">>) @@
    ("project" :> <<"p", "r", "o", "j", "e", "c", "t">>) @@
    ("claude-project" :> <<"c", "l", "a", "u", "d", "e", "-", "p", "r", "o", "j", "e", "c", "t">>) @@
    ("user" :> <<"u", "s", "e", "r">>) @@
    ("claude-user" :> <<"c", "l", "a", "u", "d", "e", "-", "u", "s", "e", "r">>) @@
    ("claude-plugins" :> <<"c", "l", "a", "u", "d", "e", "-", "p", "l", "u", "g", "i", "n", "s">>) @@
    ("using-superpowers" :> <<"u", "s", "i", "n", "g", "-", "s", "u", "p", "e",
                              "r", "p", "o", "w", "e", "r", "s">>)

Sep == "/"

RECURSIVE JoinWith(_, _)
\* The strings of segs (character sequences), each preceded by sep.
JoinWith(segs, sep) ==
    IF segs = <<>> THEN <<>>
    ELSE <<sep>> \o Head(segs) \o JoinWith(Tail(segs), sep)

\* The absolute path string of a path given as its sequence of tokens.
Str(path) == JoinWith([i \in 1..Len(path) |-> Chars[path[i]]], Sep)

RECURSIVE SplitFrom(_, _, _)
\* s.split('/'): the segments of s between separators, empty ones included.
SplitFrom(s, i, cur) ==
    IF i > Len(s) THEN <<cur>>
    ELSE IF s[i] = Sep THEN <<cur>> \o SplitFrom(s, i + 1, <<>>)
    ELSE SplitFrom(s, i + 1, Append(cur, s[i]))

Split(s) == SplitFrom(s, 1, <<>>)

RECURSIVE NormalizeFrom(_, _, _)
\* node's normalizeString for an absolute path: "" and "." are dropped and
\* ".." removes the segment before it (and is dropped at the root).
NormalizeFrom(segs, i, res) ==
    IF i > Len(segs) THEN res
    ELSE IF segs[i] = <<>> \/ segs[i] = <<".">> THEN NormalizeFrom(segs, i + 1, res)
    ELSE IF segs[i] = <<".", ".">>
         THEN NormalizeFrom(segs, i + 1,
                            IF res = <<>> THEN res ELSE SubSeq(res, 1, Len(res) - 1))
    ELSE NormalizeFrom(segs, i + 1, Append(res, segs[i]))

IsAbsolute(s) == s /= <<>> /\ s[1] = Sep

\* process.cwd(): the project directory.
Cwd == Str(<<"w">>)

\* The segments of path.resolve(basePath, requestedPath): arguments are taken
\* from the right until an absolute one is met, then normalized.
ResolveSegs(basePath, requestedPath) ==
    LET joined ==
            IF IsAbsolute(requestedPath) THEN requestedPath
            ELSE IF IsAbsolute(basePath)
                 THEN basePath \o <<Sep>> \o requestedPath
            ELSE Cwd \o <<Sep>> \o basePath \o <<Sep>> \o requestedPath
    IN  NormalizeFrom(Split(joined), 1, <<>>)

\* path.resolve(basePath, requestedPath) as a string.
PathResolve(basePath, requestedPath) ==
    LET segs == ResolveSegs(basePath, requestedPath)
    IN  IF segs = <<>> THEN <<Sep>> ELSE JoinWith(segs, Sep)

\* String.prototype.startsWith
StartsWith(s, prefix) ==
    /\ Len(prefix) <= Len(s)
    /\ SubSeq(s, 1, Len(prefix)) = prefix

\* A slip of isPathSafe: the prefix test without the trailing separator.
isPathSafe_NoSep(basePath, requestedPath) ==
    LET resolved == PathResolve(basePath, requestedPath)
    IN  StartsWith(resolved, basePath) \/ resolved = basePath

isPathSafe(basePath, requestedPath) ==
    LET resolved == PathResolve(basePath, requestedPath)
    IN  StartsWith(resolved, basePath \o <<Sep>>) \/ resolved = basePath

\* The index of the last separator of s, 0 when it has none.
LastSep(s) ==
    IF \E i \in 1..Len(s) : s[i] = Sep
    THEN CHOOSE i \in 1..Len(s) : s[i] = Sep /\ \A j \in (i + 1)..Len(s) : s[j] /= Sep
    ELSE 0

RECURSIVE StripTrailingSeps(_)
StripTrailingSeps(s) ==
    IF s /= <<>> /\ s[Len(s)] = Sep THEN StripTrailingSeps(SubSeq(s, 1, Len(s) - 1))
    ELSE s

\* The name of a base (a string without separators) as path.parse splits it
\* into name and ext: the extension starts at the last dot, unless that dot
\* is the first character, or the base is "..".
BaseName(base) ==
    LET dots == {i \in 1..Len(base) : base[i] = "."}
    IN  IF dots = {} THEN base
        ELSE LET startDot == CHOOSE i \in dots : \A j \in dots : j <= i
             IN  IF startDot = 1 THEN base
                 ELSE IF base = <<".", ".">> THEN base
                 ELSE SubSeq(base, 1, startDot - 1)

\* path.parse(s).name: trailing separators are ignored, the directory part
\* is dropped, then the extension.
ParsedName(s) ==
    LET trimmed == StripTrailingSeps(s)
        base == SubSeq(trimmed, LastSep(trimmed) + 1, Len(trimmed))
    IN  BaseName(base)

\* The lower-case form of a character ('i' flag of RegExp).
Lower(c) == IF c = "A" THEN "a" ELSE c

LowerCase(s) == [i \in 1..Len(s) |-> Lower(s[i])]

\* The segments of s between the occurrences of the character c.
RECURSIVE SplitAt(_, _, _, _)
SplitAt(s, c, i, cur) ==
    IF i > Len(s) THEN <<cur>>
    ELSE IF s[i] = c THEN <<cur>> \o SplitAt(s, c, i + 1, <<>>)
    ELSE SplitAt(s, c, i + 1, Append(cur, s[i]))

\* The least index >= from at which piece occurs in s, 0 when there is none.
IndexOf(piece, s, from) ==
    LET hits == {i \in from..(Len(s) - Len(piece) + 1) :
                    SubSeq(s, i, i + Len(piece) - 1) = piece}
    IN  IF hits = {} THEN 0 ELSE CHOOSE i \in hits : \A j \in hits : i <= j

RECURSIVE PiecesInOrder(_, _, _)
\* The literal pieces occur in s one after the other, from index from on.
PiecesInOrder(pieces, s, from) ==
    IF pieces = <<>> THEN TRUE
    ELSE LET at == IndexOf(Head(pieces), s, from)
         IN  at /= 0 /\ PiecesInOrder(Tail(pieces), s, at + Len(Head(pieces)))

RECURSIVE GroupDepth(_, _, _)
\* The number of groups left open by the characters of pattern from index
\* i on, negative once a ")" closes no group.
GroupDepth(pattern, i, depth) ==
    IF depth < 0 \/ i > Len(pattern) THEN depth
    ELSE GroupDepth(pattern, i + 1,
                    IF pattern[i] = "(" THEN depth + 1
                    ELSE IF pattern[i] = ")" THEN depth - 1
                    ELSE depth)

\* new RegExp(query.replace(/\*/g, '.*'), 'i') constructs a pattern, for a
\* query of letters, digits, hyphens, stars and parentheses: every group is
\* closed and every ")" closes one.  Otherwise the constructor throws a
\* SyntaxError.
regExpCompiles(query) == GroupDepth(query, 1, 0) = 0

\* The pattern without its parentheses: no star follows a group as a
\* quantifier (each star became ".*"), so a group matches as its content.
Ungroup(query) == SelectSeq(query, LAMBDA c : c \notin {"(", ")"})

\* new RegExp(query.replace(/\*/g, '.*'), 'i').test(s), for a query that
\* compiles: the pieces between the stars occur in s in order, whatever the
\* case.
RegexTest(query, s) ==
    PiecesInOrder(SplitAt(LowerCase(Ungroup(query)), "*", 1, <<>>), LowerCase(s), 1)

-----------------------------------------------------------------------------
(* Discovery.                                                               *)

\* The six discovery sources in the order discoverAllSkills processes them.
Sources == 1..6

SourceLabel(i) ==
    CASE i = 1 -> "project"
      [] i = 2 -> "claude-project"
      [] i = 3 -> "user"
      [] i = 4 -> "claude-user"
      [] OTHER -> "claude-plugins"

Labels == {SourceLabel(i) : i \in Sources}

\* The directory under which source i finds skill directories.
SourceBase(i) ==
    CASE i = 1 -> <<"w", ".opencode", "skills">>
      [] i = 2 -> <<"w", ".claude", "skills">>
      [] i = 3 -> <<"h", ".config", "opencode", "skills">>
      [] i = 4 -> <<"h", ".claude", "skills">>
      [] i = 5 -> <<"h", ".claude", "plugins", "cache", "plug", "skills">>
      [] OTHER -> <<"h", ".claude", "plugins", "marketplaces", "mkt">>

Absent == "<absent>"

AsciiLowercase ==
    {"a", "b", "c", "d", "e", "f", "g", "h", "i", "j", "k", "l", "m", "n",
     "o", "p", "q", "r", "s", "t", "u", "v", "w", "x", "y", "z"}

AsciiDigits == {"0", "1", "2", "3", "4", "5", "6", "7", "8", "9"}

\* Characters of the classes the name pattern /^[\p{Ll}\p{N}-]+$/u admits.
\* A character outside ASCII is written by its code point.  \p{Ll} holds
\* every lower-case letter of Unicode, among them U+00E9 (e with acute) but
\* not U+00C9 (E with acute).
LowercaseLetters == AsciiLowercase \cup {"U+00E9"}

\* \p{N} holds every number character of Unicode, among them U+0663
\* (Arabic-Indic digit three) and U+00B2 (superscript two).
Digits == AsciiDigits \cup {"U+0663", "U+00B2"}

\* SkillFrontmatterSchema.parse succeeds: name is a non-empty string of the
\* pattern, description a non-empty string.
SchemaAccepts(fm) ==
    /\ fm.name /= Absent
    /\ Len(Chars[fm.name]) >= 1
    /\ \A i \in 1..Len(Chars[fm.name]) :
            Chars[fm.name][i] \in LowercaseLetters \cup Digits \cup {"-"}
    /\ fm.description /= Absent
    /\ fm.description /= ""

Dirname(path) == SubSeq(path, 1, Len(path) - 1)

Basename(path) == path[Len(path)]

-----------------------------------------------------------------------------
(* The text of a manifest, character by character.                          *)

LF == "\n"

\* What \s matches and String.prototype.trim removes.
Whitespace == {" ", "\t", LF}

\* What \w matches; A stands for the upper-case letters.
WordChars == AsciiLowercase \cup AsciiDigits \cup {"A", "_"}

\* s.trim()
trim(s) ==
    LET inked == {i \in 1..Len(s) : s[i] \notin Whitespace}
    IN  IF inked = {} THEN <<>>
        ELSE SubSeq(s, CHOOSE i \in inked : \A j \in inked : i <= j,
                       CHOOSE i \in inked : \A j \in inked : j <= i)

\* content.match(/^---\n([\s\S]*?)\n---\n([\s\S]*)$/), line 282: the two
\* groups, or <<>> when there is no match.  The first group ends at the
\* first closing delimiter line.
frontmatterMatch(content) ==
    LET opening == <<"-", "-", "-", LF>>
        closing == <<LF, "-", "-", "-", LF>>
        at == IndexOf(closing, content, Len(opening) + 1)
    IN  IF ~StartsWith(content, opening) \/ at = 0 THEN <<>>
        ELSE << SubSeq(content, Len(opening) + 1, at - 1),
                SubSeq(content, at + Len(closing), Len(content)) >>

\* value.replace(/^["'](.*)["']$/, '$1'), line 80: a first and a last
\* character that are quotes, alike or not, are removed.
unquote(value) ==
    IF Len(value) >= 2 /\ value[1] \in {"\"", "'"} /\ value[Len(value)] \in {"\"", "'"}
    THEN SubSeq(value, 2, Len(value) - 1)
    ELSE value

\* The length of the longest prefix of line made of \w and hyphens.
RECURSIVE KeyLen(_, _)
KeyLen(line, i) ==
    IF i <= Len(line) /\ line[i] \in WordChars \cup {"-"} THEN KeyLen(line, i + 1)
    ELSE i - 1

\* The index of the first character of line, from i on, that is not \s.
RECURSIVE SkipSpaces(_, _)
SkipSpaces(line, i) ==
    IF i <= Len(line) /\ line[i] \in Whitespace THEN SkipSpaces(line, i + 1) ELSE i

\* line.match(/^([\w-]+)\s*:\s*(.*)$/), line 64: <<key, value>>, the value
\* trimmed (line 72), or <<>> when there is no match.
topMatch(line) ==
    LET n == KeyLen(line, 1)
        colon == SkipSpaces(line, n + 1)
    IN  IF n = 0 \/ colon > Len(line) \/ line[colon] /= ":" THEN <<>>
        ELSE <<SubSeq(line, 1, n), trim(SubSeq(line, colon + 1, Len(line)))>>

\* Lines 39 and 50: the line starts with two \s, so it continues the
\* current key with an array item or a nested pair.
indented(line) ==
    Len(line) >= 3 /\ line[1] \in Whitespace /\ line[2] \in Whitespace
        /\ (line[3] \in WordChars \/ (line[3] = "-" /\ Len(line) >= 4 /\ line[4] \in Whitespace))

\* The nested pair of an indented line (line 51), <<>> when it has none.
nestedMatch(line) ==
    IF line[3] \in WordChars THEN topMatch(SubSeq(line, 3, Len(line))) ELSE <<>>

\* result[key]: the value assigned last, <<>> when the key was never met.
yamlGet(result, key) ==
    LET hits == SelectSeq(result, LAMBDA e : e.key = key)
    IN  IF hits = <<>> THEN <<>> ELSE <<hits[Len(hits)]>>

RECURSIVE yamlLines(_, _, _)
\* The loop of parseYamlFrontmatter (lines 35-83) over the lines left.
\* result lists the assignments result[key] = ... in order: a string (kind
\* "string"), or the array or object begun below the current key.  cur is
\* <<>> while currentKey is null, else <<currentKey, a, o>> where a and o
\* tell that currentArray and currentObject are not null.
yamlLines(lines, cur, result) ==
    IF lines = <<>> THEN result
    ELSE LET line == Head(lines)
             rest == Tail(lines)
             top == topMatch(line)
             last == yamlGet(result, cur[1])[1]
         IN  IF trim(line) = <<>> THEN yamlLines(rest, cur, result)
             ELSE IF indented(line) /\ cur /= <<>> /\ line[3] = "-"
             THEN yamlLines(rest, <<cur[1], TRUE, cur[3]>>,
                            IF cur[2] THEN result
                            ELSE Append(result, [key |-> cur[1], kind |-> "array",
                                                 value |-> <<>>]))
             ELSE IF indented(line) /\ cur /= <<>> /\ nestedMatch(line) /= <<>>
             THEN yamlLines(rest, <<cur[1], cur[2], TRUE>>,
                            IF ~cur[3]
                            THEN Append(result, [key |-> cur[1], kind |-> "object",
                                                 value |-> <<nestedMatch(line)>>])
                            ELSE IF last.kind = "object"
                            THEN Append(result, [key |-> cur[1], kind |-> "object",
                                                 value |-> Append(last.value,
                                                                  nestedMatch(line))])
                            ELSE result)
             ELSE IF top = <<>> THEN yamlLines(rest, cur, result)
             ELSE IF top[2] = <<>> THEN yamlLines(rest, <<top[1], FALSE, FALSE>>, result)
             ELSE yamlLines(rest, <<top[1], FALSE, FALSE>>,
                            Append(result, [key |-> top[1], kind |-> "string",
                                            value |-> unquote(top[2])]))

\* parseYamlFrontmatter(text), lines 28-86.
parseYamlFrontmatter(text) == yamlLines(SplitAt(text, LF, 1, <<>>), <<>>, <<>>)

\* SkillFrontmatterSchema.parse(frontmatterObj) succeeds (lines 131-143).
schemaAcceptsText(obj) ==
    LET name == yamlGet(obj, Chars["name"])
        description == yamlGet(obj, Chars["description"])
        metadata == yamlGet(obj, Chars["metadata"])
    IN  /\ name /= <<>> /\ name[1].kind = "string"
        /\ Len(name[1].value) >= 1
        /\ \A i \in 1..Len(name[1].value) :
              name[1].value[i] \in LowercaseLetters \cup Digits \cup {"-"}
        /\ description /= <<>> /\ description[1].kind = "string"
        /\ Len(description[1].value) >= 1
        /\ metadata /= <<>> => metadata[1].kind = "object"
        /\ yamlGet(obj, <<"l", "i", "c", "e", "n", "s", "e">>) /= <<>>
              => yamlGet(obj, <<"l", "i", "c", "e", "n", "s", "e">>)[1].kind = "string"
        /\ yamlGet(obj, <<"a", "l", "l", "o", "w", "e", "d", "-", "t", "o", "o", "l", "s">>) /= <<>>
              => yamlGet(obj, <<"a", "l", "l", "o", "w", "e", "d", "-", "t", "o", "o", "l", "s">>)[1].kind
                    = "array"

\* frontmatter.metadata?.namespace (line 336): <<>> for undefined.
namespaceOf(metadata) ==
    LET hits == IF metadata = <<>> THEN <<>>
                ELSE SelectSeq(metadata[1].value,
                               LAMBDA pair : pair[1] = <<"n", "a", "m", "e", "s", "p", "a", "c", "e">>)
    IN  IF hits = <<>> THEN <<>> ELSE <<hits[Len(hits)][2]>>

\* parseSkillFile(skillPath, ...) on the text the manifest holds (lines
\* 276-339): <<>> for null, else the name, description, directory and
\* content of the skill.
parseSkillText(content, skillPath) ==
    LET match == frontmatterMatch(content)
        obj == parseYamlFrontmatter(match[1])
    IN  IF content = <<>> THEN <<>>
        ELSE IF match = <<>> THEN <<>>
        ELSE IF match[1] = <<>> \/ match[2] = <<>> THEN <<>>
        ELSE IF ~schemaAcceptsText(obj) THEN <<>>
        ELSE IF yamlGet(obj, Chars["name"])[1].value /= Chars[Basename(Dirname(skillPath))]
        THEN <<>>
        ELSE << [ name        |-> yamlGet(obj, Chars["name"])[1].value,
                  description |-> yamlGet(obj, Chars["description"])[1].value,
                  path        |-> Dirname(skillPath),
                  namespace   |-> namespaceOf(yamlGet(obj, Chars["metadata"])),
                  content     |-> trim(match[2]) ] >>

\* findScripts(skillPath), lines 236-265: the executable files directly in
\* the skill directory, then those in its scripts directory, each under its
\* file name without extension.  execs lists the executables on disk, each
\* with the directory it is in ("" or "scripts"); every one is pushed, a name
\* already present included.
findScripts(skillPath, execs) ==
    LET ordered == SelectSeq(execs, LAMBDA x : x.dir = "")
                       \o SelectSeq(execs, LAMBDA x : x.dir = "scripts")
    IN  [k \in 1..Len(ordered) |->
            [ name |-> ParsedName(Chars[ordered[k].file]),
              path |-> skillPath \o (IF ordered[k].dir = "" THEN <<>> ELSE <<ordered[k].dir>>)
                                 \o <<ordered[k].file>> ]]

\* A slip of parseSkillFile: the name is not compared with the directory.
parseSkillFile_NoDirCheck(m, label) ==
    IF ~m.file.readable THEN <<>>
    ELSE IF ~m.file.delimited \/ m.file.body = "" THEN <<>>
    ELSE IF ~SchemaAccepts(m.file.fm) THEN <<>>
    ELSE << [ name         |-> m.file.fm.name,
              description  |-> m.file.fm.description,
              path         |-> Dirname(m.skillPath),
              relativePath |-> m.relativePath,
              namespace    |-> m.file.fm.namespace,
              label        |-> label,
              scripts      |-> findScripts(Dirname(m.skillPath), m.file.execs),
              content      |-> m.file.body ] >>

\* parseSkillFile: <<>> for null, <<skill>> otherwise.  m is one entry of a
\* scan's result: the manifest path, its relative path, and the file there.
parseSkillFile(m, label) ==
    IF ~m.file.readable THEN <<>>
    ELSE IF ~m.file.delimited \/ m.file.body = "" THEN <<>>
    ELSE IF ~SchemaAccepts(m.file.fm) THEN <<>>
    ELSE IF m.file.fm.name /= Basename(Dirname(m.skillPath)) THEN <<>>
    ELSE << [ name         |-> m.file.fm.name,
              description  |-> m.file.fm.description,
              path         |-> Dirname(m.skillPath),
              relativePath |-> m.relativePath,
              namespace    |-> m.file.fm.namespace,
              label        |-> label,
              scripts      |-> findScripts(Dirname(m.skillPath), m.file.execs),
              content      |-> m.file.body ] >>

\* Map.prototype.has / get / set on the insertion-ordered registry.
MapHas(map, key) == \E i \in 1..Len(map) : map[i].name = key

MapGet(map, key) ==
    IF MapHas(map, key)
    THEN <<map[CHOOSE i \in 1..Len(map) : map[i].name = key]>>
    ELSE <<>>

MapSet(map, key, value) ==
    IF MapHas(map, key)
    THEN [i \in 1..Len(map) |-> IF map[i].name = key THEN value ELSE map[i]]
    ELSE Append(map, value)

\* A slip of registerSkill: no look-up of an existing entry before the set.
registerSkill_LastWins(map, skill) == MapSet(map, skill.name, skill)

\* The body of each discovery loop once a manifest parsed: first found wins.
registerSkill(map, skill) ==
    IF MapGet(map, skill.name) /= <<>> THEN map
    ELSE MapSet(map, skill.name, skill)

\* A slip of the loop: a manifest that fails to parse keeps its directory
\* name from every later manifest.
onParseFailure_Reserves(map, m) ==
    registerSkill(map, [ name         |-> Basename(Dirname(m.skillPath)),
                         description  |-> "",
                         path         |-> Dirname(m.skillPath),
                         relativePath |-> m.relativePath,
                         namespace    |-> Absent,
                         label        |-> m.label,
                         scripts      |-> <<>>,
                         content      |-> "" ])

\* if (!skill) continue (line 546): the manifest m that failed to parse
\* leaves the registry as it is.
onParseFailure(map, m) == map

RECURSIVE processFound(_, _)
\* A slip of processFound: a manifest that fails to parse ends the loop.
processFound_Abort(found, map) ==
    IF found = <<>> THEN map
    ELSE LET parsed == parseSkillFile(Head(found), Head(found).label)
         IN  IF parsed = <<>> THEN map
             ELSE processFound(Tail(found), registerSkill(map, parsed[1]))

\* One discovery loop: parse each found manifest in order and register it.
processFound(found, map) ==
    IF found = <<>> THEN map
    ELSE LET parsed == parseSkillFile(Head(found), Head(found).label)
         IN  processFound(Tail(found),
                          IF parsed = <<>> THEN onParseFailure(map, Head(found))
                          ELSE registerSkill(map, parsed[1]))

\* The result entry a scan pushes for the manifest e of the input.
foundEntry(e) ==
    [ skillPath    |-> SourceBase(e.src) \o <<e.dir, "SKILL.md">>,
      relativePath |-> <<e.dir>>,
      label        |-> SourceLabel(e.src),
      file         |-> e.file ]

\* What the scan of source i returns: the manifests fs holds for it, in
\* directory order, each with the label the scan was called with.
foundIn(fs, i) ==
    LET mine == SelectSeq(fs, LAMBDA e : e.src = i)
    IN  [k \in 1..Len(mine) |-> foundEntry(mine[k])]

\* maxDepth of the discovery paths: 3 for the opencode directories, 1 for
\* the claude ones.
DeepScan == 3

ShallowScan == 1

MaxDepthOf(i) == IF i \in {1, 3} THEN DeepScan ELSE ShallowScan

\* A root handed to findSkillsRecursive: status is "ok", "missing"
\* (fs.access rejects) or "unreadable" (fs.readdir rejects); dirs are the
\* directories below it, each by its path from the root; manifests are the
\* directories that hold a SKILL.md (<<>> is the root itself); links are
\* the entries that are symbolic links to the root directory, each one a
\* cycle.
\* fs.readdir(dir, {withFileTypes: true}), line 356, in directory order.
readdir(root, dir) ==
    SelectSeq(<<"a", "b">>, LAMBDA n : Append(dir, n) \in root.dirs \cup root.links)

\* entry.isDirectory(), line 359: false for a symbolic link, whatever it
\* points to.
isDirectory(root, path) == path \in root.dirs

\* The entries of dir the loop does not skip.
readdirDirs(root, dir) ==
    SelectSeq(readdir(root, dir), LAMBDA n : isDirectory(root, Append(dir, n)))

\* A slip of recurse: the depth is not looked at.
tooDeep_Never(depth, maxDepth) == FALSE

\* Line 353: if (depth > maxDepth) return.
tooDeep(depth, maxDepth) == depth > maxDepth

NothingFound == [results |-> <<>>, read |-> {}, raised |-> FALSE]

\* A slip of descends: the scan goes below a directory that has a manifest.
descends_Always(hit) == TRUE

\* Lines 365-375: the recursion sits in the catch of fs.stat(skillFile).
descends(hit) == ~hit

RECURSIVE recurse(_, _, _, _)
RECURSIVE visitEntries(_, _, _, _, _)

\* The loop of recurse over the entries of dir (lines 358-376).
visitEntries(root, dir, entries, depth, maxDepth) ==
    IF entries = <<>> THEN NothingFound
    ELSE LET fullPath == Append(dir, Head(entries))
             hit == fullPath \in root.manifests
             below == IF descends(hit) THEN recurse(root, fullPath, depth + 1, maxDepth)
                      ELSE NothingFound
             rest == visitEntries(root, dir, Tail(entries), depth, maxDepth)
         IN  [ results |-> (IF hit THEN <<fullPath>> ELSE <<>>)
                               \o below.results \o rest.results,
               read |-> below.read \cup rest.read,
               raised |-> FALSE ]

\* recurse(dir, depth, relPath), lines 352-380; read collects the
\* directories fs.readdir was called on.
recurse(root, dir, depth, maxDepth) ==
    IF tooDeep(depth, maxDepth) THEN NothingFound
    ELSE IF dir = <<>> /\ root.status = "unreadable"
         THEN [NothingFound EXCEPT !.read = {dir}]
    ELSE LET seen == visitEntries(root, dir, readdirDirs(root, dir), depth, maxDepth)
         IN  [seen EXCEPT !.read = @ \cup {dir}]

\* A slip of findSkillsRecursive: the rejections are not caught.
findSkillsRecursive_NoCatch(root, maxDepth) ==
    IF root.status /= "ok" THEN [NothingFound EXCEPT !.raised = TRUE]
    ELSE recurse(root, <<>>, 0, maxDepth)

\* findSkillsRecursive(baseDir, label, maxDepth), lines 345-390: the
\* relative paths of the manifests found, in order.
findSkillsRecursive(root, maxDepth) ==
    IF root.status = "missing" THEN NothingFound
    ELSE recurse(root, <<>>, 0, maxDepth)

\* Object.keys(installed.plugins || {}), each key by its split('@').  The
\* content of installed_plugins.json is one of: "absent", "unparsable",
\* "null" (the JSON null), "number", "no-plugins" ({}), "none"
\* ({plugins: {}}), and three with one key: "plug@mkt", "other@mkt", "plug".
installedKeys(installed) ==
    CASE installed = "plug@mkt" -> << <<"plug", "mkt">> >>
      [] installed = "other@mkt" -> << <<"other", "mkt">> >>
      [] installed = "plug" -> << <<"plug">> >>
      [] OTHER -> <<>>

\* The plugins array of marketplace.json of marketplace mkt, for the
\* contents that have one: "listed" ({plugins: [{name: "plug", skills:
\* ["./a", "./b"]}]}), "no-skills" (the entry has no skills field),
\* "skills-number" (skills: 5), "skills-string" (skills: "ab"),
\* "other-plugin" (an entry of another name).  The remaining contents are
\* "absent", "unparsable", "null", "no-plugins" ({}) and
\* "plugins-not-array" ({plugins: {}}).
manifestPluginNames(manifest) ==
    CASE manifest \in {"listed", "no-skills", "skills-number", "skills-string"} -> {"plug"}
      [] manifest = "other-plugin" -> {"elsewhere"}
      [] OTHER -> {}

\* What one iteration of the loop over the installed plugins does (lines
\* 415-450): "skip" (continue), "raise" (a TypeError leaves the function),
\* or "load" (the skills the manifest lists are looked up on disk).
pluginStep(key, manifest) ==
    IF Len(key) < 2 THEN "skip"
    ELSE IF manifest \in {"absent", "unparsable"} THEN "skip"
    ELSE IF manifest = "null" THEN "raise"
    ELSE IF manifest = "no-plugins" THEN "skip"
    ELSE IF manifest = "plugins-not-array" THEN "raise"
    ELSE IF key[1] \notin manifestPluginNames(manifest) THEN "skip"
    ELSE IF manifest = "no-skills" THEN "skip"
    ELSE IF manifest = "skills-number" THEN "raise"
    ELSE IF manifest = "skills-string" THEN "skip"
    ELSE "load"

\* discoverMarketplaceSkills rejects: installed_plugins.json holds null, or
\* an iteration raises.
marketplaceRaises(pl) ==
    IF pl.installed \in {"absent", "unparsable"} THEN FALSE
    ELSE IF pl.installed = "null" THEN TRUE
    ELSE \E k \in 1..Len(installedKeys(pl.installed)) :
            pluginStep(installedKeys(pl.installed)[k], pl.manifest) = "raise"

\* The result of discoverMarketplaceSkills when it returns.
discoverMarketplaceSkills(fs, pl) ==
    IF pl.installed \in {"absent", "unparsable"} THEN <<>>
    ELSE IF \E k \in 1..Len(installedKeys(pl.installed)) :
                pluginStep(installedKeys(pl.installed)[k], pl.manifest) = "load"
         THEN foundIn(fs, 6)
    ELSE <<>>

\* discoverPluginCacheSkills: every skill directory of every plugin
\* directory of the cache, when the cache directory can be listed.
discoverPluginCacheSkills(fs, pl) ==
    IF pl.cache = "ok" THEN foundIn(fs, 5) ELSE <<>>

\* What discoverAllSkills iterates over for source i.
scanOf(fs, pl, i) ==
    CASE i = 5 -> discoverPluginCacheSkills(fs, pl)
      [] i = 6 -> discoverMarketplaceSkills(fs, pl)
      [] OTHER -> foundIn(fs, i)

RECURSIVE discoverFrom(_, _, _, _)
discoverFrom(fs, pl, i, map) ==
    IF i > 6 THEN map
    ELSE discoverFrom(fs, pl, i + 1, processFound(scanOf(fs, pl, i), map))

\* discoverAllSkills when it returns: the four standard paths, the plugin
\* cache, the marketplaces, in that order, into one Map.
discoverAllSkills(fs, pl) == discoverFrom(fs, pl, 1, <<>>)

-----------------------------------------------------------------------------
(* Resolution.  An identifier is modelled by its split(':'): a non-empty   *)
(* sequence of colon-free strings.                                          *)

\* A slip of the qualifier test: every qualifier fits.
qualifies_Any(skill, namespace) == TRUE

\* skill.label === namespace || skill.namespace === namespace (line 610).
qualifies(skill, namespace) ==
    skill.label = namespace \/ skill.namespace = namespace

\* A slip of resolveSkill: a qualified identifier falls back to its name.
resolveSkill_Fallback(skillName, map) ==
    IF Len(skillName) > 1
    THEN MapGet(map, skillName[2])
    ELSE MapGet(map, skillName[1])

resolveSkill(skillName, map) ==
    IF Len(skillName) > 1
    THEN LET namespace == skillName[1]
             name == skillName[2]
             hits == SelectSeq(map, LAMBDA skill :
                         /\ skill.name = name
                         /\ qualifies(skill, namespace))
         IN  IF hits = <<>> THEN <<>> ELSE <<Head(hits)>>
    ELSE MapGet(map, skillName[1])

-----------------------------------------------------------------------------
(* Sessions, models and the transport.                                      *)

Sessions == {"s1", "s2"}

Models == {"mA", "mB"}

NoModel == "undefined"

Slots == {1, 2}

\* Most handler invocations a behaviour starts.
MaxStarts == 2

\* getCurrentModel's default limit.
ScanLimit == 50

UserMsg(m) == [role |-> "user", model |-> m]

AssistantMsg == [role |-> "assistant", model |-> NoModel]

Reverse(seq) == [i \in 1..Len(seq) |-> seq[Len(seq) + 1 - i]]

\* The latest limit messages of session s, oldest first.
Window(s, limit) ==
    LET n == IF Len(history[s]) < limit THEN Len(history[s]) ELSE limit
    IN  SubSeq(history[s], Len(history[s]) - n + 1, Len(history[s]))

\* response.data of client.session.messages({path: {id: s}, query: {limit}}).
Messages(s, limit) ==
    IF newestFirst THEN Reverse(Window(s, limit)) ELSE Window(s, limit)

\* The loop of getCurrentModel's slow path over response.data.
FirstUserModel(data) ==
    LET hits == SelectSeq(data, LAMBDA msg : msg.role = "user" /\ msg.model /= NoModel)
    IN  IF hits = <<>> THEN NoModel ELSE Head(hits).model

allSkills == skillsByName

usingSuperpowersSkill == MapGet(skillsByName, "using-superpowers")

-----------------------------------------------------------------------------
(* Handler invocations.  Each slot holds one invocation: its position (pc)  *)
(* between two awaits, its locals, and what it did so far.                  *)

Idle ==
    [ kind |-> "idle", pc |-> "idle", sid |-> "-", trigger |-> "-",
      model |-> NoModel, pushKind |-> "-", pushModel |-> NoModel,
      saw |-> "-", result |-> "-", outside |-> FALSE,
      nSummary |-> 0, nBootstrap |-> 0, nContent |-> 0, reads |-> 0, lists |-> 0,
      runs |-> 0, ran |-> <<>>, skill |-> <<>>, script_name |-> <<>>,
      readdirOk |-> "-", query |-> <<>>, listing |-> <<>> ]

Free(h) == hs[h].pc \in {"idle", "done"}

\* A new invocation takes the lowest free slot.
Takes(h) == Free(h) /\ \A k \in Slots : k < h => ~Free(k)

CanStart == phase = "ready" /\ started < MaxStarts

Return(rec, result) == [rec EXCEPT !.pc = "done", !.result = result]

\* A slip of cacheModel: the model of the message is not remembered.
cacheModel_Never(cache, s, m) == cache

\* chat.message, lines 751-754: remember the model the message carries.
cacheModel(cache, s, m) ==
    IF m /= NoModel THEN [cache EXCEPT ![s] = m] ELSE cache

\* getCurrentModel's fast path followed by a push of kind: with a cached
\* model the prompt is next, otherwise the session's messages are awaited.
modelThenPush(rec, kind, cache) ==
    IF cache[rec.sid] /= NoModel
    THEN [rec EXCEPT !.pc = "push", !.pushKind = kind, !.pushModel = cache[rec.sid]]
    ELSE [rec EXCEPT !.pc = "scanPush", !.pushKind = kind]

\* A slip of injectSkillsList: the test for an empty list is inverted.
injectSkillsList_Inverted(rec) ==
    IF Len(allSkills) > 0 THEN Return(rec, "ok")
    ELSE [rec EXCEPT !.pc = "push", !.pushKind = "summary", !.pushModel = rec.model]

\* injectSkillsList up to its await: nothing to push for an empty registry.
injectSkillsList(rec) ==
    IF Len(allSkills) = 0 THEN Return(rec, "ok")
    ELSE [rec EXCEPT !.pc = "push", !.pushKind = "summary", !.pushModel = rec.model]

\* A slip of maybeInjectSuperpowersBootstrap: the mode flag is not consulted.
maybeInjectSuperpowersBootstrap_NoFlag(rec, cache) ==
    IF usingSuperpowersSkill = <<>> THEN injectSkillsList(rec)
    ELSE modelThenPush(rec, "bootstrap", cache)

\* maybeInjectSuperpowersBootstrap up to its first await, and what follows
\* it when it returns at once.
maybeInjectSuperpowersBootstrap(rec, cache) ==
    IF ~superpowersModeEnabled \/ usingSuperpowersSkill = <<>>
    THEN injectSkillsList(rec)
    ELSE modelThenPush(rec, "bootstrap", cache)

\* A slip of injectFrom: the model is looked up in the history even when one
\* is cached.
injectFrom_NoCache(rec, cache) == [rec EXCEPT !.pc = "scan"]

\* Lines 775-777 and 784-786: const model = await getCurrentModel(...), then
\* the bootstrap, then the skills list.
injectFrom(rec, cache) ==
    IF cache[rec.sid] /= NoModel
    THEN maybeInjectSuperpowersBootstrap([rec EXCEPT !.model = cache[rec.sid]], cache)
    ELSE [rec EXCEPT !.pc = "scan"]

-----------------------------------------------------------------------------
(* Actions.                                                                 *)

\* SkillsPlugin, lines 626-629: discovery runs once, before any hook; when
\* discoverAllSkills rejects, so does SkillsPlugin and no hook exists.
Startup ==
    /\ phase = "boot"
    /\ IF marketplaceRaises(plugins)
       THEN phase' = "failed" /\ skillsByName' = <<>>
       ELSE phase' = "ready" /\ skillsByName' = discoverAllSkills(fsys, plugins)
    /\ UNCHANGED <<parse, plugins, roots, scan, fsys, superpowersModeEnabled, newestFirst, history,
                   sessionModels, injectedSessions, hs, prompts, msgModel,
                   started, lastResolve, lastScan, firstSeen, compactions>>

\* chat.message up to its first await (lines 748-761).
ChatMessage(h, s, m) ==
    /\ CanStart /\ Takes(h)
    /\ started' = started + 1
    /\ sessionModels' = cacheModel(sessionModels, s, m)
    /\ msgModel' = IF m /= NoModel THEN [msgModel EXCEPT ![s] = m] ELSE msgModel
    /\ LET rec == [Idle EXCEPT !.kind = "chat", !.sid = s, !.trigger = "initial"]
       IN  hs' = [hs EXCEPT ![h] =
                    IF s \in injectedSessions THEN Return(rec, "skipped")
                    ELSE [rec EXCEPT !.pc = "history"]]
    /\ firstSeen' = IF firstSeen[s] /= "-" THEN firstSeen
                    ELSE [firstSeen EXCEPT ![s] =
                            IF history[s] = <<>> THEN "empty" ELSE "nonempty"]
    /\ UNCHANGED <<parse, plugins, roots, scan, fsys, phase, skillsByName, superpowersModeEnabled, newestFirst,
                   history, injectedSessions, prompts, lastResolve, lastScan,
                   compactions>>

\* A slip of hasHistory: the reply is not looked at.
hasHistory_Never(existing) == FALSE

\* Line 766: existing.data && existing.data.length > 0.
hasHistory(existing) == Len(existing) > 0

\* A slip of the marking: one flag for all sessions.
markInjected_Global(injected, s) == Sessions

\* injectedSessions.add(sessionID), lines 767 and 774.
markInjected(injected, s) == injected \cup {s}

\* The reply to client.session.messages({limit: 1}) and what follows it up
\* to the next await (lines 761-775).  ok = FALSE: the query raised.
HistoryReply(h, ok) ==
    /\ hs[h].pc = "history"
    /\ LET s == hs[h].sid
           existing == Messages(s, 1)
       IN  /\ injectedSessions' = markInjected(injectedSessions, s)
           /\ hs' = [hs EXCEPT ![h] =
                IF ok /\ hasHistory(existing)
                THEN Return([hs[h] EXCEPT !.saw = "history"], "reconnected")
                ELSE injectFrom([hs[h] EXCEPT !.saw = IF ok THEN "empty" ELSE "error"],
                                sessionModels)]
    /\ UNCHANGED <<parse, plugins, roots, scan, fsys, phase, skillsByName, superpowersModeEnabled, newestFirst,
                   history, sessionModels, prompts, msgModel, started,
                   lastResolve, lastScan, firstSeen, compactions>>

\* A slip of the event hook: a compaction marks the session.
Event_Marks(h, s, type) ==
    /\ CanStart /\ Takes(h)
    /\ started' = started + 1
    /\ LET rec == [Idle EXCEPT !.kind = "event", !.sid = s, !.trigger = "compaction"]
       IN  hs' = [hs EXCEPT ![h] =
                    IF type = "session.compacted" THEN injectFrom(rec, sessionModels)
                    ELSE Return([rec EXCEPT !.trigger =
                                    IF type = "session.deleted" THEN "deleted" ELSE "-"],
                                "ignored")]
    /\ injectedSessions' = markInjected(injectedSessions, s)
    /\ compactions' = IF type = "session.compacted"
                      THEN [compactions EXCEPT ![s] = @ + 1] ELSE compactions
    /\ UNCHANGED <<parse, plugins, roots, scan, fsys, phase, skillsByName, superpowersModeEnabled, newestFirst,
                   history, sessionModels, prompts, msgModel,
                   lastResolve, lastScan, firstSeen>>

\* event up to its first await (lines 780-784).  Only session.compacted is
\* acted on; the record of any other event keeps what the event was.
Event(h, s, type) ==
    /\ CanStart /\ Takes(h)
    /\ started' = started + 1
    /\ LET rec == [Idle EXCEPT !.kind = "event", !.sid = s, !.trigger = "compaction"]
       IN  hs' = [hs EXCEPT ![h] =
                    IF type = "session.compacted" THEN injectFrom(rec, sessionModels)
                    ELSE Return([rec EXCEPT !.trigger =
                                    IF type = "session.deleted" THEN "deleted" ELSE "-"],
                                "ignored")]
    /\ compactions' = IF type = "session.compacted"
                      THEN [compactions EXCEPT ![s] = @ + 1] ELSE compactions
    /\ UNCHANGED <<parse, plugins, roots, scan, fsys, phase, skillsByName, superpowersModeEnabled, newestFirst,
                   history, sessionModels, injectedSessions, prompts, msgModel,
                   lastResolve, lastScan, firstSeen>>

\* The reply to getCurrentModel's client.session.messages({limit}) (lines
\* 651-669) and what follows it up to the next await.
ScanReply(h, ok) ==
    /\ hs[h].pc \in {"scan", "scanPush"}
    /\ LET s == hs[h].sid
           data == Messages(s, ScanLimit)
           model == IF ok THEN FirstUserModel(data) ELSE NoModel
           cache == IF model /= NoModel THEN [sessionModels EXCEPT ![s] = model]
                    ELSE sessionModels
       IN  /\ sessionModels' = cache
           /\ lastScan' = [sid |-> s, ok |-> ok, window |-> Window(s, ScanLimit),
                           model |-> model]
           /\ hs' = [hs EXCEPT ![h] =
                IF hs[h].pc = "scan"
                THEN maybeInjectSuperpowersBootstrap([hs[h] EXCEPT !.model = model], cache)
                ELSE [hs[h] EXCEPT !.pc = "push", !.pushModel = model]]
    /\ UNCHANGED <<parse, plugins, roots, scan, fsys, phase, skillsByName, superpowersModeEnabled, newestFirst,
                   history, injectedSessions, prompts, msgModel, started, lastResolve, firstSeen, compactions>>

\* injectSyntheticContent: the call of client.session.prompt and its outcome
\* (ok = FALSE: the transport raised), then the code up to the next await.
Prompt(h, ok) ==
    /\ hs[h].pc = "push"
    /\ LET s == hs[h].sid
           kind == hs[h].pushKind
           rec == [hs[h] EXCEPT
                     !.nSummary = @ + (IF ok /\ kind = "summary" THEN 1 ELSE 0),
                     !.nBootstrap = @ + (IF ok /\ kind = "bootstrap" THEN 1 ELSE 0),
                     !.nContent = @ + (IF ok /\ kind \in {"skill", "file"} THEN 1 ELSE 0)]
       IN  /\ prompts' = [prompts EXCEPT ![s] = Append(@,
                            [kind |-> kind, trigger |-> hs[h].trigger,
                             model |-> hs[h].pushModel, ok |-> ok, saw |-> hs[h].saw])]
           /\ history' = IF ok
                         THEN [history EXCEPT ![s] = Append(@, UserMsg(hs[h].pushModel))]
                         ELSE history
           /\ hs' = [hs EXCEPT ![h] =
                IF ~ok THEN (IF kind = "file" THEN [rec EXCEPT !.pc = "readdir"]
                             ELSE Return(rec, "threw"))
                ELSE IF kind = "bootstrap" THEN injectSkillsList(rec)
                ELSE IF kind = "summary" THEN Return(rec, "ok")
                ELSE Return(rec, "loaded")]
    /\ UNCHANGED <<parse, plugins, roots, scan, fsys, phase, skillsByName, superpowersModeEnabled, newestFirst,
                   sessionModels, injectedSessions, msgModel, started,
                   lastResolve, lastScan, firstSeen, compactions>>

\* allSkills.map(s => s.name), in registry order (line 932).
skillNames(skills) == [k \in 1..Len(skills) |-> skills[k].name]

\* use_skill.execute up to its first await (lines 928-937).
UseSkill(h, s, id) ==
    /\ CanStart /\ Takes(h)
    /\ started' = started + 1
    /\ LET rec == [Idle EXCEPT !.kind = "use_skill", !.sid = s, !.trigger = "tool"]
       IN  hs' = [hs EXCEPT ![h] =
                    IF resolveSkill(id, skillsByName) = <<>>
                    THEN Return([rec EXCEPT !.listing = <<skillNames(skillsByName)>>],
                                "skill-not-found")
                    ELSE [rec EXCEPT !.pc = "listFiles",
                                     !.skill = resolveSkill(id, skillsByName)]]
    /\ UNCHANGED <<parse, plugins, roots, scan, fsys, phase, skillsByName, superpowersModeEnabled, newestFirst,
                   history, sessionModels, injectedSessions, prompts, msgModel,
                   lastResolve, lastScan, firstSeen, compactions>>

\* listSkillFiles returned (it never raises); lines 939-960.
ListFilesReply(h) ==
    /\ hs[h].pc = "listFiles"
    /\ hs' = [hs EXCEPT ![h] =
                modelThenPush([hs[h] EXCEPT !.lists = @ + 1], "skill", sessionModels)]
    /\ UNCHANGED <<parse, plugins, roots, scan, fsys, phase, skillsByName, superpowersModeEnabled, newestFirst,
                   history, sessionModels, injectedSessions, prompts, msgModel,
                   started, lastResolve, lastScan, firstSeen, compactions>>

\* The requested path, resolved against the skill directory, is not the
\* directory and not below it (segment by segment).
LiesOutside(skillPath, filename) ==
    LET resolved == ResolveSegs(Str(skillPath), filename)
        base == [i \in 1..Len(skillPath) |-> Chars[skillPath[i]]]
    IN  ~(Len(base) <= Len(resolved) /\ SubSeq(resolved, 1, Len(base)) = base)

\* read_skill_file.execute up to its first await (lines 830-845).
ReadSkillFile(h, s, id, filename) ==
    /\ CanStart /\ Takes(h)
    /\ started' = started + 1
    /\ LET skill == resolveSkill(id, skillsByName)
           rec == [Idle EXCEPT !.kind = "read_skill_file", !.sid = s,
                               !.trigger = "tool"]
       IN  hs' = [hs EXCEPT ![h] =
                    IF skill = <<>> THEN Return(rec, "skill-not-found")
                    ELSE IF ~isPathSafe(Str(skill[1].path), filename)
                    THEN Return([rec EXCEPT !.skill = skill,
                                            !.outside = LiesOutside(skill[1].path, filename)],
                                "invalid-path")
                    ELSE [rec EXCEPT !.pc = "readFile", !.skill = skill,
                                     !.outside = LiesOutside(skill[1].path, filename)]]
    /\ UNCHANGED <<parse, plugins, roots, scan, fsys, phase, skillsByName, superpowersModeEnabled, newestFirst,
                   history, sessionModels, injectedSessions, prompts, msgModel,
                   lastResolve, lastScan, firstSeen, compactions>>

\* fs.readFile settled (lines 845-863).  ok = FALSE: it rejected.
ReadFileReply(h, ok) ==
    /\ hs[h].pc = "readFile"
    /\ hs' = [hs EXCEPT ![h] =
                IF ok THEN modelThenPush([hs[h] EXCEPT !.reads = @ + 1], "file", sessionModels)
                ELSE [hs[h] EXCEPT !.reads = @ + 1, !.pc = "readdir"]]
    /\ UNCHANGED <<parse, plugins, roots, scan, fsys, phase, skillsByName, superpowersModeEnabled, newestFirst,
                   history, sessionModels, injectedSessions, prompts, msgModel,
                   started, lastResolve, lastScan, firstSeen, compactions>>

\* What fs.readdir(skill.path) yields: the manifest, the executables of the
\* directory and its scripts directory when it holds one.
dirEntries(skill) ==
    {"SKILL.md"} \cup {skill.scripts[k].path[Len(skill.path) + 1] : k \in 1..Len(skill.scripts)}

\* A slip of the catch block: the directory is listed whatever readdir did.
filesListed_Always(skill, ok) == <<dirEntries(skill)>>

\* The files the not-found message of read_skill_file lists (lines 864-869):
\* the directory entries, or no list at all when readdir rejected too.
filesListed(skill, ok) == IF ok THEN <<dirEntries(skill)>> ELSE <<>>

\* The catch block of read_skill_file: fs.readdir settled (lines 862-870).
\* ok = FALSE: it rejected.
ReaddirReply(h, ok) ==
    /\ hs[h].pc = "readdir"
    /\ hs' = [hs EXCEPT ![h] =
                Return([hs[h] EXCEPT !.lists = @ + 1, !.readdirOk = ok,
                                     !.listing = filesListed(hs[h].skill[1], ok)],
                       "file-not-found")]
    /\ UNCHANGED <<parse, plugins, roots, scan, fsys, phase, skillsByName, superpowersModeEnabled, newestFirst,
                   history, sessionModels, injectedSessions, prompts, msgModel,
                   started, lastResolve, lastScan, firstSeen, compactions>>

\* skill.scripts.find(...), lines 892-895: the first script whose name is the
\* requested one or its path.parse name.
findScript(scripts, scriptName) ==
    LET hits == SelectSeq(scripts, LAMBDA sc :
                    sc.name = scriptName \/ sc.name = ParsedName(scriptName))
    IN  IF hits = <<>> THEN <<>> ELSE <<Head(hits)>>

\* names.join(', ')
RECURSIVE JoinComma(_)
JoinComma(names) ==
    IF names = <<>> THEN <<>>
    ELSE IF Len(names) = 1 THEN names[1]
    ELSE names[1] \o <<",", " ">> \o JoinComma(Tail(names))

\* skill.scripts.map(s => s.name).join(', ') || 'none' (line 898).
availableScripts(scripts) ==
    LET joined == JoinComma([k \in 1..Len(scripts) |-> scripts[k].name])
    IN  IF joined = <<>> THEN <<"n", "o", "n", "e">> ELSE joined

\* run_skill_script.execute up to its await (lines 884-906).  The tool has
\* no session: it pushes nothing.
RunSkillScript(h, id, scriptName) ==
    /\ CanStart /\ Takes(h)
    /\ started' = started + 1
    /\ LET skill == resolveSkill(id, skillsByName)
           rec == [Idle EXCEPT !.kind = "run_skill_script", !.trigger = "tool",
                               !.script_name = scriptName]
       IN  hs' = [hs EXCEPT ![h] =
                    IF skill = <<>> THEN Return(rec, "skill-not-found")
                    ELSE IF findScript(skill[1].scripts, scriptName) = <<>>
                    THEN Return([rec EXCEPT !.skill = skill,
                                     !.listing = <<availableScripts(skill[1].scripts)>>],
                                "script-not-found")
                    ELSE [rec EXCEPT !.pc = "exec", !.skill = skill,
                                     !.ran = <<findScript(skill[1].scripts, scriptName)[1].path>>]]
    /\ UNCHANGED <<parse, plugins, roots, scan, fsys, phase, skillsByName, superpowersModeEnabled, newestFirst,
                   history, sessionModels, injectedSessions, prompts, msgModel,
                   lastResolve, lastScan, firstSeen, compactions>>

\* The shell call of run_skill_script settled (lines 903-918): its output is
\* returned, or a "Script failed" message when it rejected.
ExecReply(h, ok) ==
    /\ hs[h].pc = "exec"
    /\ hs' = [hs EXCEPT ![h] =
                Return([hs[h] EXCEPT !.runs = @ + 1],
                       IF ok THEN "script-output" ELSE "script-failed")]
    /\ UNCHANGED <<parse, plugins, roots, scan, fsys, phase, skillsByName, superpowersModeEnabled, newestFirst,
                   history, sessionModels, injectedSessions, prompts, msgModel,
                   started, lastResolve, lastScan, firstSeen, compactions>>

\* The filter of find_skills (lines 800-805): the pattern is tested against
\* the name and the description.
matchesQuery(skill, query) ==
    RegexTest(query, Chars[skill.name]) \/ RegexTest(query, Chars[skill.description])

\* A slip of find_skills: the registry itself is filtered in place.
FindSkills_InPlace(h, query) ==
    /\ CanStart /\ Takes(h)
    /\ started' = started + 1
    /\ LET filtered == IF query /= <<>>
                       THEN SelectSeq(skillsByName, LAMBDA sk : matchesQuery(sk, query))
                       ELSE skillsByName
           rec == [Idle EXCEPT !.kind = "find_skills", !.trigger = "tool",
                               !.query = query]
       IN  /\ hs' = [hs EXCEPT ![h] =
                    IF query /= <<>> /\ ~regExpCompiles(query) THEN Return(rec, "threw")
                    ELSE IF Len(filtered) = 0 THEN Return(rec, "no-skills-found")
                    ELSE Return([rec EXCEPT !.listing = <<skillNames(filtered)>>], "skills")]
           /\ skillsByName' = IF query /= <<>> /\ ~regExpCompiles(query)
                              THEN skillsByName ELSE filtered
    /\ UNCHANGED <<parse, plugins, roots, scan, fsys, phase, superpowersModeEnabled, newestFirst,
                   history, sessionModels, injectedSessions, prompts, msgModel,
                   lastResolve, lastScan, firstSeen, compactions>>

\* find_skills.execute (lines 797-819); it awaits nothing.  An absent or
\* empty query (<<>>) filters nothing; a query that does not compile makes
\* new RegExp throw, and execute rejects.
FindSkills(h, query) ==
    /\ CanStart /\ Takes(h)
    /\ started' = started + 1
    /\ LET filtered == IF query /= <<>>
                       THEN SelectSeq(skillsByName, LAMBDA sk : matchesQuery(sk, query))
                       ELSE skillsByName
           rec == [Idle EXCEPT !.kind = "find_skills", !.trigger = "tool",
                               !.query = query]
       IN  hs' = [hs EXCEPT ![h] =
                    IF query /= <<>> /\ ~regExpCompiles(query) THEN Return(rec, "threw")
                    ELSE IF Len(filtered) = 0 THEN Return(rec, "no-skills-found")
                    ELSE Return([rec EXCEPT !.listing = <<skillNames(filtered)>>], "skills")]
    /\ UNCHANGED <<parse, plugins, roots, scan, fsys, phase, skillsByName, superpowersModeEnabled, newestFirst,
                   history, sessionModels, injectedSessions, prompts, msgModel,
                   lastResolve, lastScan, firstSeen, compactions>>

\* One call of parseSkillFile on the manifest text (lines 271-340).
ParseSkillFile ==
    /\ ~parse.done
    /\ parse' = [parse EXCEPT !.done = TRUE,
                              !.result = parseSkillText(parse.content, parse.skillPath)]
    /\ UNCHANGED <<plugins, roots, scan, fsys, phase, skillsByName, superpowersModeEnabled,
                   newestFirst, history, sessionModels, injectedSessions, hs, prompts,
                   msgModel, started, lastResolve, lastScan, firstSeen, compactions>>

\* The loop of discoverAllSkills over the discovery paths (lines 541-542),
\* one findSkillsRecursive call at a time.
ScanNext ==
    /\ scan.done < Len(roots) /\ ~scan.raised
    /\ LET i == scan.done + 1
           found == findSkillsRecursive(roots[i], MaxDepthOf(i))
       IN  scan' = [ done |-> i,
                     results |-> scan.results \o
                        [k \in 1..Len(found.results) |->
                            [root |-> i, relativePath |-> found.results[k],
                             label |-> SourceLabel(i)]],
                     read |-> scan.read \cup {<<i, d>> : d \in found.read},
                     raised |-> found.raised ]
    /\ UNCHANGED <<parse, plugins, roots, fsys, phase, skillsByName, superpowersModeEnabled,
                   newestFirst, history, sessionModels, injectedSessions, hs, prompts,
                   msgModel, started, lastResolve, lastScan, firstSeen, compactions>>

\* resolveSkill as the three tools call it (lines 831, 885, 929).  It keeps
\* no state, so a behaviour asks for one identifier.
Resolve(id) ==
    /\ phase = "ready"
    /\ lastResolve.id = <<>>
    /\ lastResolve' = [id |-> id, skill |-> resolveSkill(id, skillsByName)]
    /\ UNCHANGED <<parse, plugins, roots, scan, fsys, phase, skillsByName, superpowersModeEnabled, newestFirst,
                   history, sessionModels, injectedSessions, hs, prompts, msgModel,
                   started, lastScan, firstSeen, compactions>>

-----------------------------------------------------------------------------
(* Inputs.                                                                  *)

GoodFile(name, ns) ==
    [ readable |-> TRUE, delimited |-> TRUE,
      fm |-> [name |-> name, description |-> "d", namespace |-> ns],
      body |-> "body", execs |-> <<>> ]

UnreadableFile == [GoodFile("a", Absent) EXCEPT !.readable = FALSE]

BadNameFile == GoodFile("A", Absent)

\* A manifest that does not start with a frontmatter block.
NoFrontmatterFile == [GoodFile("b", Absent) EXCEPT !.delimited = FALSE]

\* Most manifests the discovery inputs hold.
MaxManifests == 2

Dirs == {"a", "b"}

Files ==
    {GoodFile(n, ns) : n \in {"a", "b"}, ns \in {Absent, "project"}}
        \cup {UnreadableFile, BadNameFile, NoFrontmatterFile}

Entries == [src : Sources, dir : Dirs, file : Files]

\* Manifests listed source by source, at most one per directory.
WellFormedFs(fs) ==
    /\ \A i \in 1..Len(fs) - 1 : fs[i].src <= fs[i + 1].src
    /\ \A i, j \in 1..Len(fs) :
            (fs[i].src = fs[j].src /\ fs[i].dir = fs[j].dir) => i = j

DiscoveryInputs ==
    UNION {{fs \in [1..n -> Entries] : WellFormedFs(fs)} : n \in 0..MaxManifests}

FsEmpty == <<>>

FsOne == <<[src |-> 1, dir |-> "a", file |-> GoodFile("a", Absent)]>>

FsSuper ==
    <<[src |-> 1, dir |-> "a", file |-> GoodFile("a", Absent)],
      [src |-> 3, dir |-> "using-superpowers",
       file |-> GoodFile("using-superpowers", Absent)]>>

SessionInputs == {FsEmpty, FsOne, FsSuper}

\* The plugin files of a machine where plugin plug of marketplace mkt is
\* installed and lists its skills.
PluginsInstalled == [installed |-> "plug@mkt", manifest |-> "listed", cache |-> "ok"]

InstalledContents ==
    {"absent", "unparsable", "null", "number", "no-plugins", "none",
     "plug@mkt", "other@mkt", "plug"}

ManifestContents ==
    {"absent", "unparsable", "null", "no-plugins", "plugins-not-array",
     "other-plugin", "no-skills", "skills-number", "skills-string", "listed"}

PluginInputs ==
    [installed : InstalledContents, manifest : ManifestContents, cache : {"ok", "missing"}]

\* No root scanned yet.
NoScan == [done |-> 0, results |-> <<>>, read |-> {}, raised |-> FALSE]

\* Most directories below a scanned root; also their greatest depth.
MaxDirs == 3

RECURSIVE TreesOf(_)
\* The sets of at most n directories closed under taking the parent.
TreesOf(n) ==
    IF n = 0 THEN {{}}
    ELSE LET smaller == TreesOf(n - 1)
         IN  smaller \cup
             UNION {{t \cup {Append(d, x)} : d \in {<<>>} \cup t, x \in Dirs} : t \in smaller}

ClosedTrees == TreesOf(MaxDirs)

MissingRoot == [status |-> "missing", dirs |-> {}, manifests |-> {}, links |-> {}]

\* The entries a tree of directories t has room for.
FreeEntries(t) == {Append(d, x) : d \in {<<>>} \cup t, x \in Dirs} \ t

\* The directories of t that hold no directory.
Leaves(t) == {d \in t : \A x \in Dirs : Append(d, x) \notin t}

\* Trees of directories, some with a manifest in the root itself, some with
\* an entry that links back to the root.
ScanTrees ==
    UNION {{[status |-> st, dirs |-> t, manifests |-> m, links |-> {}]
                : m \in SUBSET t, st \in {"ok", "unreadable"}}
            : t \in ClosedTrees}
        \cup UNION {{[status |-> "ok", dirs |-> t, manifests |-> m \cup {<<>>}, links |-> {}]
                : m \in {{}, Leaves(t)}} : t \in ClosedTrees}
        \cup UNION {{[status |-> "ok", dirs |-> t, manifests |-> m, links |-> {l}]
                : l \in FreeEntries(t), m \in {{}, Leaves(t)}} : t \in ClosedTrees}
        \cup {MissingRoot}

\* The second root scanned: absent, unreadable, or holding skill a with a
\* directory below it.
SecondRoots ==
    {[status |-> st, dirs |-> {<<"a">>, <<"a", "b">>}, manifests |-> {<<"a">>, <<"a", "b">>},
      links |-> {}]
        : st \in {"ok", "unreadable"}}
        \cup {MissingRoot}

\* Skill a in the cache of plugin plug, skill b in marketplace mkt.
FsPlugins ==
    <<[src |-> 5, dir |-> "a", file |-> GoodFile("a", Absent)],
      [src |-> 6, dir |-> "b", file |-> GoodFile("b", Absent)]>>

FsProjectAndPlugins ==
    <<[src |-> 1, dir |-> "a", file |-> GoodFile("a", Absent)]>> \o FsPlugins

HistoryInputs == {<<>>, <<UserMsg("mA"), UserMsg("mB"), AssistantMsg>>}

EventTypes == {"session.compacted", "session.idle", "session.deleted"}

ToolIds == {<<"a">>, <<"b">>}

\* Identifiers resolveSkill is asked for: bare names, and names qualified by
\* a tier label or by another namespace.
Identifiers ==
    {<<n>> : n \in Dirs} \cup
    {<<ns, n>> : ns \in Labels \cup {"team"}, n \in Dirs}

PathAlphabet == {"a", ".", "/"}

\* Longest requested path enumerated character by character.
MaxReqLen == 5

SkillDirA == Str(SourceBase(1) \o <<"a">>)

\* The filename arguments of read_skill_file: every short string over the
\* alphabet, and absolute paths into and beside the skill directory.
Filenames ==
    UNION {[1..n -> PathAlphabet] : n \in 0..MaxReqLen}
        \cup {SkillDirA \o <<"/", "a">>, SkillDirA \o <<"a">>}

SomeFilenames == {<<"a">>, <<".", ".", "/", "a", "a">>}

\* A skill directory with two executables: a.a beside the manifest and .a
\* in its scripts directory.
ScriptedFile ==
    [GoodFile("a", Absent) EXCEPT
        !.execs = <<[dir |-> "", file |-> "a.a"], [dir |-> "scripts", file |-> ".a"]>>]

FsScripts == <<[src |-> 3, dir |-> "a", file |-> ScriptedFile]>>

\* Skill a in the project tier and skill b in the user tier.
FsTwo ==
    << [src |-> 1, dir |-> "a", file |-> GoodFile("a", Absent)],
       [src |-> 3, dir |-> "b", file |-> GoodFile("b", Absent)] >>

\* A skill directory where a.a beside the manifest and a in the scripts
\* directory have the same name without extension.
SameNameFile ==
    [GoodFile("a", Absent) EXCEPT
        !.execs = <<[dir |-> "scripts", file |-> "a"], [dir |-> "", file |-> "a.a"]>>]

FsSameName == <<[src |-> 3, dir |-> "a", file |-> SameNameFile]>>

ToolInputs == {FsEmpty, FsOne, FsScripts, FsSameName, FsTwo}

\* Longest script_name argument.
MaxNameLen == 3

NameAlphabet == {"a", ".", Sep}

\* The script_name arguments of run_skill_script.
ScriptNames == UNION {[1..n -> NameAlphabet] : n \in 1..MaxNameLen}

\* The query arguments of find_skills; <<>> is the absent query.
Queries ==
    { <<>>, <<"*">>, <<"a">>, <<"A">>, <<"b">>, <<"d">>, <<"z">>, <<"a", "*">>,
      Chars["user"], Chars["project"], <<"u", "*", "r">> }

-----------------------------------------------------------------------------
(* Specifications.                                                          *)

NoParse == [content |-> <<>>, skillPath |-> <<>>, done |-> FALSE, result |-> <<>>,
            given |-> [description |-> <<>>, quote |-> "", meta |-> FALSE, body |-> <<>>]]

InitHooks ==
    /\ phase = "boot"
    /\ skillsByName = <<>>
    /\ sessionModels = [s \in Sessions |-> NoModel]
    /\ injectedSessions = {}
    /\ hs = [h \in Slots |-> Idle]
    /\ prompts = [s \in Sessions |-> <<>>]
    /\ msgModel = [s \in Sessions |-> NoModel]
    /\ started = 0
    /\ lastResolve = [id |-> <<>>, skill |-> <<>>]
    /\ lastScan = [sid |-> "-", ok |-> FALSE, window |-> <<>>, model |-> NoModel]
    /\ firstSeen = [s \in Sessions |-> "-"]
    /\ compactions = [s \in Sessions |-> 0]
    /\ scan = NoScan

InitCommon == InitHooks /\ parse = NoParse

Init ==
    /\ InitCommon
    /\ plugins = PluginsInstalled
    /\ roots = <<>>
    /\ fsys \in SessionInputs
    /\ superpowersModeEnabled \in BOOLEAN
    /\ newestFirst \in BOOLEAN
    /\ history \in {[s \in Sessions |-> IF s = "s1" THEN h ELSE <<>>] : h \in HistoryInputs}

Starts ==
    \E h \in Slots, s \in Sessions :
        \/ \E m \in Models \cup {NoModel} : ChatMessage(h, s, m)
        \/ \E type \in EventTypes : Event(h, s, type)
        \/ \E id \in ToolIds : UseSkill(h, s, id)
        \/ \E id \in ToolIds, f \in SomeFilenames : ReadSkillFile(h, s, id, f)

Steps ==
    \E h \in Slots :
        \/ \E ok \in BOOLEAN : HistoryReply(h, ok)
        \/ \E ok \in BOOLEAN : ScanReply(h, ok)
        \/ \E ok \in BOOLEAN : Prompt(h, ok)
        \/ ListFilesReply(h)
        \/ \E ok \in BOOLEAN : ReadFileReply(h, ok)
        \/ \E ok \in BOOLEAN : ReaddirReply(h, ok)

Next == Startup \/ Starts \/ Steps

\* Handlers interleave at their awaits.
Spec == Init /\ [][Next]_vars

\* No invocation is in flight.
Quiet == \A h \in Slots : Free(h)

NextSerial == Startup \/ (Quiet /\ Starts) \/ Steps

\* Handlers run one at a time: an invocation starts when none is in flight.
SpecSerial == Init /\ [][NextSerial]_vars

InitDiscover ==
    /\ InitCommon
    /\ plugins = PluginsInstalled
    /\ roots = <<>>
    /\ fsys \in DiscoveryInputs
    /\ superpowersModeEnabled = FALSE
    /\ newestFirst = FALSE
    /\ history = [s \in Sessions |-> <<>>]

NextDiscover == Startup \/ \E id \in Identifiers : Resolve(id)

\* Discovery over every bounded input, then identifier look-ups.
SpecDiscover == InitDiscover /\ [][NextDiscover]_vars

InitPath ==
    /\ InitCommon
    /\ plugins = PluginsInstalled
    /\ roots = <<>>
    /\ fsys = FsOne
    /\ superpowersModeEnabled = FALSE
    /\ newestFirst = FALSE
    /\ history \in {[s \in Sessions |-> IF s = "s1" THEN h ELSE <<>>] : h \in HistoryInputs}

PathSteps ==
    \E h \in Slots :
        \/ \E ok \in BOOLEAN : ReadFileReply(h, ok)
        \/ \E ok \in BOOLEAN : ScanReply(h, ok)
        \/ \E ok \in BOOLEAN : Prompt(h, ok)
        \/ \E ok \in BOOLEAN : ReaddirReply(h, ok)

NextPath ==
    \/ Startup
    \/ \E h \in Slots, f \in Filenames : ReadSkillFile(h, "s1", <<"a">>, f)
    \/ PathSteps

\* read_skill_file over every bounded filename.
SpecPath == InitPath /\ [][NextPath]_vars

InitTools ==
    /\ InitCommon
    /\ plugins = PluginsInstalled
    /\ roots = <<>>
    /\ fsys \in ToolInputs
    /\ superpowersModeEnabled = FALSE
    /\ newestFirst = FALSE
    /\ history = [s \in Sessions |-> <<>>]

ToolStarts ==
    \E h \in Slots :
        \/ \E id \in ToolIds : UseSkill(h, "s1", id)
        \/ \E id \in ToolIds, f \in SomeFilenames : ReadSkillFile(h, "s1", id, f)
        \/ \E id \in ToolIds, x \in ScriptNames : RunSkillScript(h, id, x)
        \/ \E q \in Queries : FindSkills(h, q)

ToolSteps ==
    \E h \in Slots :
        \/ \E ok \in BOOLEAN : ScanReply(h, ok)
        \/ \E ok \in BOOLEAN : Prompt(h, ok)
        \/ ListFilesReply(h)
        \/ \E ok \in BOOLEAN : ReadFileReply(h, ok)
        \/ \E ok \in BOOLEAN : ReaddirReply(h, ok)
        \/ \E ok \in BOOLEAN : ExecReply(h, ok)

NextTools == Startup \/ ToolStarts \/ ToolSteps

\* The four tools over every bounded argument.
SpecTools == InitTools /\ [][NextTools]_vars

\* One directory name held by two sources, each with any manifest file.
SameDirInputs ==
    { <<[src |-> i, dir |-> n, file |-> f1], [src |-> j, dir |-> n, file |-> f2]>> :
        i \in Sources, j \in Sources, n \in Dirs, f1 \in Files, f2 \in Files }

InitPriority ==
    /\ InitCommon
    /\ plugins = PluginsInstalled
    /\ roots = <<>>
    /\ fsys \in {fs \in SameDirInputs : fs[1].src < fs[2].src}
    /\ superpowersModeEnabled = FALSE
    /\ newestFirst = FALSE
    /\ history = [s \in Sessions |-> <<>>]

NextPriority == Startup \/ \E n \in Dirs : Resolve(<<n>>)

\* Discovery of one directory name present in two sources.
SpecPriority == InitPriority /\ [][NextPriority]_vars

\* Longest query enumerated character by character.
MaxQueryLen == 3

QueryAlphabet == {"a", "*", "(", ")"}

QueryTexts == {<<>>} \cup UNION {[1..n -> QueryAlphabet] : n \in 1..MaxQueryLen}

InitFind ==
    /\ InitCommon
    /\ plugins = PluginsInstalled
    /\ roots = <<>>
    /\ fsys \in ToolInputs
    /\ superpowersModeEnabled = FALSE
    /\ newestFirst = FALSE
    /\ history = [s \in Sessions |-> <<>>]

NextFind == Startup \/ \E h \in Slots, q \in QueryTexts : FindSkills(h, q)

\* find_skills over every bounded query text.
SpecFind == InitFind /\ [][NextFind]_vars

SomeScriptNames == {<<"a">>, <<Sep, "a">>, <<".">>}

SomeQueries == {<<>>, <<"a">>, <<"z">>}

InitAll ==
    /\ InitCommon
    /\ plugins = PluginsInstalled
    /\ roots = <<>>
    /\ fsys \in {FsScripts, FsSuper}
    /\ superpowersModeEnabled \in BOOLEAN
    /\ newestFirst = FALSE
    /\ history = [s \in Sessions |-> <<>>]

AllStarts ==
    \E h \in Slots :
        \/ \E m \in {"mA", NoModel} : ChatMessage(h, "s1", m)
        \/ Event(h, "s1", "session.compacted")
        \/ \E id \in ToolIds : UseSkill(h, "s1", id)
        \/ \E id \in ToolIds, f \in SomeFilenames : ReadSkillFile(h, "s1", id, f)
        \/ \E id \in ToolIds, x \in SomeScriptNames : RunSkillScript(h, id, x)
        \/ \E q \in SomeQueries : FindSkills(h, q)

AllSteps ==
    \/ Steps
    \/ \E h \in Slots, ok \in BOOLEAN : ExecReply(h, ok)

NextAll == Startup \/ AllStarts \/ AllSteps

\* Every hook and every tool, interleaved, on one session.
SpecAll == InitAll /\ [][NextAll]_vars

InitPair ==
    /\ InitCommon
    /\ plugins = PluginsInstalled
    /\ roots = <<>>
    /\ fsys = FsOne
    /\ superpowersModeEnabled = FALSE
    /\ newestFirst = FALSE
    /\ history = [s \in Sessions |-> <<>>]

\* Session s1 talks to model mA and session s2 to model mB.
ModelOf(s) == IF s = "s1" THEN "mA" ELSE "mB"

PairStarts ==
    \E h \in Slots, s \in Sessions :
        \/ \E m \in {ModelOf(s), NoModel} : ChatMessage(h, s, m)
        \/ Event(h, s, "session.compacted")
        \/ UseSkill(h, s, <<"a">>)
        \/ ReadSkillFile(h, s, <<"a">>, <<"a">>)

NextPair == Startup \/ PairStarts \/ Steps

\* The handlers of two new sessions, interleaved at their awaits.
SpecPair == InitPair /\ [][NextPair]_vars

\* Names of manifests and of their directories: of the pattern, empty, and
\* with an upper-case letter, an underscore, a space, or a letter or digit
\* outside ASCII.
NameInputs ==
    {"a", "0", "-", "a-0", "", "A", "aA", "a_", "a ", "U+00E9", "aU+0663", "U+00B2", "U+00C9"}

InitNames ==
    /\ InitCommon
    /\ plugins = PluginsInstalled
    /\ roots = <<>>
    /\ fsys \in {<<[src |-> i, dir |-> n, file |-> GoodFile(n, Absent)]>>
                    : i \in 1..4, n \in NameInputs}
    /\ superpowersModeEnabled = FALSE
    /\ newestFirst = FALSE
    /\ history = [s \in Sessions |-> <<>>]

NextNames == Startup \/ \E n \in NameInputs : Resolve(<<n>>)

\* Discovery of one manifest whose name is that of its directory.
SpecNames == InitNames /\ [][NextNames]_vars

\* Manifest texts: "---", a name line, a description line written bare or
\* between quotes, at times a metadata block, "---" and the body.
MaxDescLen == 2

DescAlphabet == {"a", " ", "\"", "'"}

Quotes == {"\"", "'"}

DescTexts == UNION {[1..n -> DescAlphabet] : n \in 1..MaxDescLen}

\* A description written without quotes starts with no quote and has no
\* blank at either end.
Bare(d) == d[1] \notin Quotes /\ d[1] /= " " /\ d[Len(d)] /= " "

Bodies ==
    { <<>>, <<"a">>, <<" ", "a", LF>>, <<LF>>, <<"a", LF, "-", "-", "-", LF, "a">> }

Render(name, quote, description, meta, body) ==
    <<"-", "-", "-", LF>>
    \o Chars["name"] \o <<":", " ">> \o name \o <<LF>>
    \o Chars["description"] \o <<":", " ">>
    \o (IF quote = "" THEN description ELSE <<quote>> \o description \o <<quote>>) \o <<LF>>
    \o (IF meta
        THEN Chars["metadata"] \o <<":", LF, " ", " ">>
             \o <<"n", "a", "m", "e", "s", "p", "a", "c", "e", ":", " ", "a", LF>>
        ELSE <<>>)
    \o <<"-", "-", "-", LF>>
    \o body

ManifestPath == SourceBase(1) \o <<"a", "SKILL.md">>

InitParse ==
    /\ InitHooks
    /\ plugins = PluginsInstalled
    /\ roots = <<>>
    /\ fsys = FsEmpty
    /\ superpowersModeEnabled = FALSE
    /\ newestFirst = FALSE
    /\ history = [s \in Sessions |-> <<>>]
    /\ \E d \in DescTexts, q \in Quotes \cup {""}, meta \in BOOLEAN, body \in Bodies :
          /\ q = "" => Bare(d)
          /\ parse = [content |-> Render(Chars["a"], q, d, meta, body),
                      skillPath |-> ManifestPath,
                      done |-> FALSE,
                      result |-> <<>>,
                      given |-> [description |-> d, quote |-> q, meta |-> meta,
                                 body |-> body]]

\* parseSkillFile applied to one manifest text.
SpecParse == InitParse /\ [][ParseSkillFile]_vars

InitMarket ==
    /\ InitCommon
    /\ fsys \in {FsEmpty, FsPlugins, FsProjectAndPlugins}
    /\ plugins \in PluginInputs
    /\ roots = <<>>
    /\ superpowersModeEnabled = FALSE
    /\ newestFirst = FALSE
    /\ history = [s \in Sessions |-> <<>>]

NextMarket == Startup

\* Plugin start-up over every content of the plugin files.
SpecMarket == InitMarket /\ [][NextMarket]_vars

InitScan ==
    /\ InitCommon
    /\ fsys = FsPlugins
    /\ plugins \in {PluginsInstalled, [PluginsInstalled EXCEPT !.cache = "missing"]}
    /\ roots \in {<<r1, r2>> : r1 \in ScanTrees, r2 \in SecondRoots}
                    \cup {<<r1, r2>> : r1 \in SecondRoots, r2 \in ScanTrees}
    /\ superpowersModeEnabled = FALSE
    /\ newestFirst = FALSE
    /\ history = [s \in Sessions |-> <<>>]

\* The scans alone, with the plugins installed.
InitScanFair == InitScan /\ plugins = PluginsInstalled

NextScan == Startup \/ ScanNext

\* The directory scans of discovery over every bounded tree.
SpecScan == InitScan /\ [][NextScan]_vars

\* The loop of discoverAllSkills awaits each scan in turn: a scan that can
\* return does.
SpecScanFair == InitScanFair /\ [][ScanNext]_vars /\ WF_vars(ScanNext)

-----------------------------------------------------------------------------
(* Claims.                                                                  *)

PromptsOf(s, kind, trigger) ==
    SelectSeq(prompts[s], LAMBDA p : p.kind = kind /\ p.trigger = trigger)

Running(s, kind) == \E h \in Slots : ~Free(h) /\ hs[h].sid = s /\ hs[h].kind = kind

\* C1: a session whose history is empty at its first message, and that sees
\* message events only (no compaction), gets exactly one skills summary: never
\* more than one, and one once its message handlers have returned.  Stated
\* for a registry that holds a skill and a transport that raises nothing.
C1_ExactlyOneInitialSummary ==
    \A s \in Sessions :
        ( /\ firstSeen[s] = "empty"
          /\ compactions[s] = 0
          /\ Len(allSkills) > 0
          /\ \A i \in 1..Len(prompts[s]) :
                prompts[s][i].trigger = "initial" /\ prompts[s][i].ok )
        => /\ Len(PromptsOf(s, "summary", "initial")) <= 1
           /\ (s \in injectedSessions /\ ~Running(s, "chat"))
                => Len(PromptsOf(s, "summary", "initial")) = 1

\* C2 as stated: in a session whose history is non-empty at its first
\* message, a message handler that returned has marked the session and pushed
\* nothing, and before a compaction no message handler prompts at all.
C2_NoPushWithHistory ==
    \A s \in Sessions :
        firstSeen[s] = "nonempty" =>
            /\ \A h \in Slots :
                (hs[h].kind = "chat" /\ hs[h].sid = s /\ hs[h].pc = "done")
                    => /\ s \in injectedSessions
                       /\ hs[h].nSummary = 0 /\ hs[h].nBootstrap = 0
            /\ compactions[s] = 0 =>
                \A i \in 1..Len(prompts[s]) : prompts[s][i].trigger /= "initial"

\* C2 as amended: in such a session a message handler whose history query
\* succeeds marks the session and pushes nothing; a message handler prompts
\* only after its history query raised.
C2_NoPushWhenHistorySeen ==
    \A s \in Sessions :
        firstSeen[s] = "nonempty" =>
            /\ \A h \in Slots :
                (hs[h].kind = "chat" /\ hs[h].sid = s /\ hs[h].saw = "history")
                    => /\ hs[h].pc = "done" /\ hs[h].result = "reconnected"
                       /\ s \in injectedSessions
                       /\ hs[h].nSummary = 0 /\ hs[h].nBootstrap = 0
            /\ \A h \in Slots :
                (hs[h].kind = "chat" /\ hs[h].sid = s /\ hs[h].pc = "push")
                    => hs[h].saw = "error"
            /\ \A i \in 1..Len(prompts[s]) :
                prompts[s][i].trigger = "initial" => prompts[s][i].saw = "error"

C2_Witness ==
    \E h \in Slots :
        /\ hs[h].kind = "chat" /\ hs[h].result = "reconnected"
        /\ firstSeen[hs[h].sid] = "nonempty"
        /\ hs[h].sid \in injectedSessions
        /\ prompts[hs[h].sid] = <<>>

CompactionsRunning(s) ==
    Cardinality({h \in Slots : ~Free(h) /\ hs[h].sid = s /\ hs[h].kind = "event"})

RaisedPrompts(s, trigger) ==
    SelectSeq(prompts[s], LAMBDA p : p.trigger = trigger /\ ~p.ok)

DeliveredPrompts(s, kind, trigger) ==
    SelectSeq(prompts[s], LAMBDA p : p.kind = kind /\ p.trigger = trigger /\ p.ok)

C4_AtMostOneInitialSummary ==
    \A s \in Sessions :
        firstSeen[s] = "empty" => Len(PromptsOf(s, "summary", "initial")) <= 1

\* The first manifest of the input, in discovery order, that parses to name.
FirstParsed(name) ==
    CHOOSE k \in 1..Len(fsys) :
        /\ parseSkillFile(foundEntry(fsys[k]), SourceLabel(fsys[k].src)) /= <<>>
        /\ fsys[k].file.fm.name = name
        /\ \A j \in 1..(k - 1) :
              \/ parseSkillFile(foundEntry(fsys[j]), SourceLabel(fsys[j].src)) = <<>>
              \/ fsys[j].file.fm.name /= name

\* C5: the registry never holds a name twice, and for every manifest that
\* parses, the registry holds under its name the record, unmerged, of the
\* earliest source (project, claude-project, user, claude-user, plugin
\* cache, marketplace) with a manifest of that name that parses.
C5_FirstSourceWins ==
    phase = "ready" =>
        /\ \A i, j \in 1..Len(skillsByName) :
              skillsByName[i].name = skillsByName[j].name => i = j
        /\ \A k \in 1..Len(fsys) :
              LET parsed == parseSkillFile(foundEntry(fsys[k]), SourceLabel(fsys[k].src))
              IN  parsed /= <<>> =>
                    LET first == fsys[FirstParsed(parsed[1].name)]
                        kept == MapGet(skillsByName, parsed[1].name)
                    IN  /\ kept /= <<>>
                        /\ kept[1].label = SourceLabel(first.src)
                        /\ kept[1].path = SourceBase(first.src) \o <<first.dir>>
                        /\ kept[1].namespace = first.file.fm.namespace
                        /\ kept[1].description = first.file.fm.description

C5_Witness ==
    /\ phase = "ready"
    /\ Len(fsys) = 2
    /\ fsys[1].src = 3 /\ fsys[2].src = 5
    /\ fsys[1].file = GoodFile("a", Absent) /\ fsys[1].dir = "a"
    /\ fsys[2].file = GoodFile("a", "project") /\ fsys[2].dir = "a"
    /\ Len(skillsByName) = 1
    /\ skillsByName[1].label = "user"

\* C6: a read_skill_file call whose requested path resolves outside the
\* skill directory has returned the invalid-path rejection, and has read no
\* file, listed no directory and pushed nothing.
C6_OutsidePathRejected ==
    \A h \in Slots :
        (hs[h].kind = "read_skill_file" /\ hs[h].outside)
            => /\ hs[h].pc = "done" /\ hs[h].result = "invalid-path"
               /\ hs[h].reads = 0 /\ hs[h].lists = 0 /\ hs[h].nContent = 0

C6_Witness ==
    \E h \in Slots :
        /\ hs[h].kind = "read_skill_file" /\ hs[h].outside
        /\ hs[h].result = "invalid-path"
        /\ \E k \in Slots : hs[k].kind = "read_skill_file" /\ hs[k].result = "loaded"

\* C7: with handlers run one at a time, once a message event of a session
\* carried a model, every prompt pushed into the session carries the model
\* of the latest message event that carried one.
C7_PushCarriesMessageModel ==
    [][\A s \in Sessions :
          (Len(prompts'[s]) > Len(prompts[s]) /\ msgModel[s] /= NoModel)
              => prompts'[s][Len(prompts'[s])].model = msgModel[s]]_vars

C7_Witness ==
    /\ msgModel["s1"] = "mA"
    /\ firstSeen["s1"] = "nonempty"
    /\ newestFirst
    /\ Len(prompts["s1"]) = 1
    /\ prompts["s1"][1].kind = "skill" /\ prompts["s1"][1].model = "mA"
    /\ history["s1"][2] = UserMsg("mB")

\* The model of the latest message of window that carries a model.
MostRecentModel(window) ==
    LET hits == SelectSeq(window, LAMBDA msg : msg.model /= NoModel)
    IN  IF hits = <<>> THEN NoModel ELSE hits[Len(hits)].model

\* C8: a scan that obtained the session's messages yields the model of the
\* most recent message of the window that carries one, or none.
C8_ScanFindsMostRecent ==
    (lastScan.sid /= "-" /\ lastScan.ok)
        => lastScan.model = MostRecentModel(lastScan.window)

\* C9: for every registered skill named n of tier t, n and t:n resolve to
\* that record, and u:n resolves to nothing for every u that is neither the
\* tier nor the declared namespace of a registered skill named n.
C9_QualifiedResolution ==
    phase = "ready" =>
        \A i \in 1..Len(skillsByName) :
            LET skill == skillsByName[i]
            IN  /\ resolveSkill(<<skill.name>>, skillsByName) = <<skill>>
                /\ resolveSkill(<<skill.label, skill.name>>, skillsByName) = <<skill>>
                /\ \A u \in Labels \cup {"team"} :
                      (~\E j \in 1..Len(skillsByName) :
                            /\ skillsByName[j].name = skill.name
                            /\ (skillsByName[j].label = u \/ skillsByName[j].namespace = u))
                        => resolveSkill(<<u, skill.name>>, skillsByName) = <<>>

C9_Witness ==
    /\ phase = "ready"
    /\ lastResolve.id = <<"claude-user", "a">>
    /\ lastResolve.skill = <<>>
    /\ MapHas(skillsByName, "a")
    /\ resolveSkill(<<"user", "a">>, skillsByName) /= <<>>
    /\ resolveSkill(<<"project", "a">>, skillsByName) /= <<>>

\* C10: a manifest whose frontmatter name differs from the name of its
\* directory produces no registry entry, whatever name it would be under.
C10_NameMismatchExcluded ==
    phase = "ready" =>
        \A k \in 1..Len(fsys) :
            fsys[k].file.fm.name /= fsys[k].dir =>
                ~\E i \in 1..Len(skillsByName) :
                    skillsByName[i].path = SourceBase(fsys[k].src) \o <<fsys[k].dir>>

C10_Witness ==
    /\ phase = "ready"
    /\ Len(fsys) = 1
    /\ fsys[1].dir = "a" /\ fsys[1].file = GoodFile("b", Absent)
    /\ skillsByName = <<>>

\* p is a proper prefix of q: directory q lies below directory p.
Below(p, q) == Len(p) < Len(q) /\ SubSeq(q, 1, Len(p)) = p

\* C11: when a scan records the manifest of directory D, it lists no
\* directory below D and returns no manifest located below D, whatever the
\* root and the depth bound.
C11_NoDescentBelowManifest ==
    \A k \in 1..Len(scan.results) :
        LET found == scan.results[k]
        IN  /\ \A rd \in scan.read :
                  rd[1] = found.root =>
                      /\ rd[2] /= found.relativePath
                      /\ ~Below(found.relativePath, rd[2])
            /\ \A j \in 1..Len(scan.results) :
                  scan.results[j].root = found.root =>
                      ~Below(found.relativePath, scan.results[j].relativePath)

C11_Witness ==
    /\ scan.done = 1
    /\ roots[1].status = "ok"
    /\ roots[1].dirs = {<<"a">>, <<"a", "b">>, <<"b">>}
    /\ roots[1].manifests = {<<"a">>, <<"a", "b">>}
    /\ Len(scan.results) = 1
    /\ scan.results[1].relativePath = <<"a">>
    /\ scan.read = {<<1, <<>> >>, <<1, <<"b">> >>}

\* C13: a scan of a root that is missing or cannot be listed raises nothing
\* and returns nothing, and the roots after it are still scanned: every
\* manifest directly below a listable root is returned.  Likewise a missing
\* plugin cache leaves discovery to register the marketplace skill.
C13_MissingRootIsEmpty ==
    /\ ~scan.raised
    /\ \A i \in 1..scan.done :
          IF roots[i].status /= "ok"
          THEN /\ \A k \in 1..Len(scan.results) : scan.results[k].root /= i
               /\ \A rd \in scan.read : rd[1] = i => rd[2] = <<>>
          ELSE \A d \in roots[i].manifests :
                  Len(d) = 1 =>
                      \E k \in 1..Len(scan.results) :
                          /\ scan.results[k].root = i
                          /\ scan.results[k].relativePath = d
    /\ (phase /= "boot" /\ plugins.cache = "missing") =>
          /\ phase = "ready"
          /\ Len(skillsByName) = 1
          /\ skillsByName[1].name = "b"

C13_Witness ==
    /\ scan.done = 2
    /\ roots[1].status = "missing"
    /\ roots[2].status = "ok"
    /\ Len(scan.results) = 1
    /\ scan.results[1].root = 2
    /\ phase = "ready" /\ plugins.cache = "missing"

\* The manifest of entry e is one parseSkillFile accepts.
ValidManifest(e) ==
    /\ e.file.readable
    /\ e.file.delimited /\ e.file.body /= ""
    /\ SchemaAccepts(e.file.fm)
    /\ e.file.fm.name = e.dir

\* C12: discovery returns normally whatever manifests fail to parse; a
\* manifest that fails (unreadable, no frontmatter block, schema violation,
\* name different from its directory) leaves no registry entry, and the name
\* of every valid manifest, in the same source or a later one, is registered.
C12_ParseFailureOmitted ==
    /\ phase /= "failed"
    /\ phase = "ready" =>
          \A k \in 1..Len(fsys) :
              IF ValidManifest(fsys[k])
              THEN MapHas(skillsByName, fsys[k].file.fm.name)
              ELSE ~\E i \in 1..Len(skillsByName) :
                      skillsByName[i].path = SourceBase(fsys[k].src) \o <<fsys[k].dir>>

C12_Witness ==
    /\ phase = "ready"
    /\ Len(fsys) = 2
    /\ fsys[1].src = 1 /\ fsys[1].dir = "a" /\ fsys[1].file = NoFrontmatterFile
    /\ fsys[2].src = 1 /\ fsys[2].dir = "b" /\ fsys[2].file = GoodFile("b", Absent)
    /\ Len(skillsByName) = 1
    /\ skillsByName[1].name = "b"

\* Skills of the registry that came from the plugin cache or a marketplace.
PluginSkills == SelectSeq(skillsByName, LAMBDA skill : skill.label = "claude-plugins")

\* C14: whatever installed_plugins.json and marketplace.json hold, plugin
\* start-up is not aborted, and a malformed file yields no marketplace skill.
C14_MarketplaceNeverAborts ==
    /\ phase /= "failed"
    /\ (phase = "ready" /\ (plugins.installed /= "plug@mkt" \/ plugins.manifest /= "listed"))
          => \A i \in 1..Len(skillsByName) :
                skillsByName[i].path /= SourceBase(6) \o <<skillsByName[i].name>>

\* C15: when plugin plug is not listed in installed_plugins.json, the
\* registry holds no skill from the plugin cache or from a marketplace.
C15_UninstalledContributesNothing ==
    (phase = "ready" /\ plugins.installed \in
            {"absent", "unparsable", "number", "no-plugins", "none", "other@mkt"})
        => PluginSkills = <<>>

\* C16: the step that handles a session.deleted event for session S leaves
\* S out of the initialized sessions and out of the cached models.
C16_DeletedSessionEvicted ==
    [][\A h \in Slots :
          (/\ hs'[h] /= hs[h]
           /\ hs'[h].kind = "event" /\ hs'[h].trigger = "deleted" /\ hs'[h].pc = "done")
              => /\ hs'[h].sid \notin injectedSessions'
                 /\ sessionModels'[hs'[h].sid] = NoModel]_vars

-----------------------------------------------------------------------------
(* The tools' not-found replies.                                            *)

ToolKinds == {"use_skill", "read_skill_file", "run_skill_script"}

\* C17.  Whenever use_skill, read_skill_file or run_skill_script is asked
\* for an identifier that resolves to no skill, its reply is the not-found
\* message with the names of all the skills of the registry; it pushed
\* nothing into the session and raised nothing.
C17_NotFoundListsRegistry ==
    \A h \in Slots :
        (hs[h].kind \in ToolKinds /\ hs[h].pc = "done" /\ hs[h].skill = <<>>
            /\ hs[h].result /= "invalid-path")
            => /\ hs[h].result = "skill-not-found"
               /\ hs[h].listing = <<skillNames(skillsByName)>>
               /\ hs[h].pushKind = Idle.pushKind
               /\ hs[h].runs = 0
\* X without its extension: what precedes the base is kept.
ExtensionRemoved(x) ==
    SubSeq(x, 1, LastSep(x)) \o BaseName(SubSeq(x, LastSep(x) + 1, Len(x)))

\* The names an enumeration "n1, n2, ..." lists.
ListedNames(text) ==
    LET parts == SplitAt(text, ",", 1, <<>>)
    IN  {IF parts[k] /= <<>> /\ parts[k][1] = " " THEN Tail(parts[k]) ELSE parts[k] :
            k \in 1..Len(parts)}

ScriptNameSet(scripts) == {scripts[k].name : k \in 1..Len(scripts)}

\* C18.  Whenever run_skill_script is called for a skill that resolves, with
\* a script name X that is the name of none of the skill's scripts, neither
\* as given nor with its extension removed, it executes nothing and replies
\* with the message that lists exactly the names of the skill's scripts, or
\* "none" when the skill has no script.
C18_UnknownScriptListsNames ==
    \A h \in Slots :
        (/\ hs[h].kind = "run_skill_script" /\ hs[h].skill /= <<>>
         /\ hs[h].script_name \notin ScriptNameSet(hs[h].skill[1].scripts)
         /\ ExtensionRemoved(hs[h].script_name) \notin ScriptNameSet(hs[h].skill[1].scripts))
            => /\ hs[h].pc = "done" /\ hs[h].result = "script-not-found"
               /\ hs[h].runs = 0 /\ hs[h].ran = <<>>
               /\ Len(hs[h].listing) = 1
               /\ IF hs[h].skill[1].scripts = <<>>
                  THEN hs[h].listing[1] = <<"n", "o", "n", "e">>
                  ELSE ListedNames(hs[h].listing[1]) = ScriptNameSet(hs[h].skill[1].scripts)
\* A finished read_skill_file call for a skill that resolved, with a path
\* inside the skill directory whose file could not be read.
MissingInside(h) ==
    /\ hs[h].kind = "read_skill_file" /\ hs[h].pc = "done"
    /\ hs[h].skill /= <<>> /\ ~hs[h].outside
    /\ hs[h].pushKind = Idle.pushKind

\* C19 as stated.  Whenever read_skill_file is called for a skill that
\* resolves, with a path inside the skill directory that names no readable
\* file, it pushes nothing and replies with the not-found message that lists
\* the files of the skill directory.
C19_MissingFileListsFiles ==
    \A h \in Slots :
        MissingInside(h)
            => /\ hs[h].result = "file-not-found" /\ hs[h].reads = 1
               /\ hs[h].nContent = 0
               /\ hs[h].listing = <<dirEntries(hs[h].skill[1])>>

\* C19, amended.  Whenever read_skill_file is called for a skill that
\* resolves, with a path inside the skill directory that names no readable
\* file, it pushes nothing and replies with a not-found message; the message
\* lists the files of the skill directory when the directory could be
\* listed, and lists nothing when listing it failed too.
C19_MissingFileListsFilesIfListable ==
    \A h \in Slots :
        MissingInside(h)
            => /\ hs[h].result = "file-not-found" /\ hs[h].reads = 1
               /\ hs[h].nContent = 0
               /\ hs[h].readdirOk \in BOOLEAN
               /\ hs[h].readdirOk => hs[h].listing = <<dirEntries(hs[h].skill[1])>>
               /\ ~hs[h].readdirOk => hs[h].listing = <<>>

C19_Witness ==
    \E h \in Slots :
        /\ MissingInside(h)
        /\ hs[h].readdirOk = FALSE
        /\ hs[h].result = "file-not-found" /\ hs[h].listing = <<>>
        /\ prompts[hs[h].sid] = <<>>
\* The query matches the skill's name, its description or its tier label,
\* whatever the case.
MatchesAnyField(skill, query) ==
    \/ RegexTest(query, Chars[skill.name])
    \/ RegexTest(query, Chars[skill.description])
    \/ RegexTest(query, Chars[skill.label])

\* C20.  Every find_skills call with a query returns exactly the skills of
\* the registry whose name, description or tier label the query matches
\* case-insensitively, and the fixed "no skills found" message when there is
\* none; a call without a query returns every skill of the registry.
C20_FindMatchesNameDescriptionTier ==
    \A h \in Slots :
        (hs[h].kind = "find_skills" /\ hs[h].pc = "done")
            => LET expected ==
                       IF hs[h].query = <<>> THEN skillsByName
                       ELSE SelectSeq(skillsByName,
                                      LAMBDA sk : MatchesAnyField(sk, hs[h].query))
               IN  IF expected = <<>>
                   THEN hs[h].result = "no-skills-found" /\ hs[h].listing = <<>>
                   ELSE hs[h].result = "skills"
                            /\ hs[h].listing = <<skillNames(expected)>>
-----------------------------------------------------------------------------
(* Scripts of a skill.                                                      *)

\* The script file is in the scripts directory of the skill.
InScriptsDir(skill, scriptPath) ==
    Len(scriptPath) = Len(skill.path) + 2 /\ scriptPath[Len(skill.path) + 1] = "scripts"

\* C21.  In the scripts of a skill no two entries have the same name; when
\* an executable of one name (without extension) is both beside the manifest
\* and in the scripts directory, the entry kept is the one of the scripts
\* directory, and it is the file run_skill_script executes for that name.
C21_ScriptNamesUniqueLastWins ==
    /\ \A i \in 1..Len(skillsByName) :
          LET scripts == skillsByName[i].scripts
          IN  \A j, k \in 1..Len(scripts) : scripts[j].name = scripts[k].name => j = k
    /\ \A h \in Slots :
          (hs[h].kind = "run_skill_script" /\ hs[h].ran /= <<>>)
              => LET skill == hs[h].skill[1]
                     ran == hs[h].ran[1]
                     same == {k \in 1..Len(skill.scripts) :
                                 \E j \in 1..Len(skill.scripts) :
                                     /\ skill.scripts[j].path = ran
                                     /\ skill.scripts[k].name = skill.scripts[j].name}
                 IN  (\E k \in same : InScriptsDir(skill, skill.scripts[k].path))
                         => InScriptsDir(skill, ran)
-----------------------------------------------------------------------------
(* The registry after start-up.                                             *)

\* C22.  Once start-up discovery has returned, no operation changes the
\* registry: its names and every field of every record, the scripts
\* included, stay what discovery made them, and discovery does not run again.
C22_RegistryFrozen ==
    [][phase = "ready" => (skillsByName' = skillsByName /\ phase' = "ready")]_vars

C22_Witness ==
    /\ phase = "ready"
    /\ \E i \in 1..Len(skillsByName) : skillsByName[i].scripts /= <<>>
    /\ hs[1].kind = "run_skill_script" /\ hs[1].pc = "done" /\ hs[1].runs = 1
    /\ hs[2].kind = "find_skills" /\ hs[2].pc = "done" /\ hs[2].result = "no-skills-found"
-----------------------------------------------------------------------------
(* Sessions do not touch one another.                                       *)

\* The step changes what the plugin or the host holds for session s.
Touches(s) ==
    \/ prompts'[s] /= prompts[s]
    \/ history'[s] /= history[s]
    \/ sessionModels'[s] /= sessionModels[s]
    \/ (s \in injectedSessions') /= (s \in injectedSessions)

\* C23.  Under every interleaving of the handlers of two sessions, a step of
\* a handler for session S (message observed, compaction, use_skill,
\* read_skill_file) pushes into S only and leaves the initialized flag, the
\* cached model and the injections of every other session as they were; no
\* step touches two sessions.
C23_SessionsIsolated ==
    [][/\ \A h \in Slots :
            hs'[h] /= hs[h] => \A t \in Sessions \ {hs'[h].sid} : ~Touches(t)
       /\ \A s, t \in Sessions : (Touches(s) /\ Touches(t)) => s = t]_vars

C23_Witness ==
    /\ hs[1].sid = "s1" /\ hs[1].kind = "chat" /\ hs[1].pc = "done" /\ hs[1].nSummary = 1
    /\ hs[2].sid = "s2" /\ hs[2].kind = "chat" /\ hs[2].pc = "push"
    /\ sessionModels["s1"] = "mA" /\ sessionModels["s2"] = "mB"
    /\ injectedSessions = {"s1", "s2"}
    /\ prompts["s2"] = <<>>
-----------------------------------------------------------------------------
(* The bootstrap document.                                                  *)

\* The pushes of one kind and trigger among the first n pushes into s, the
\* raised ones included.
PushesBefore(s, kind, trigger, n) ==
    Cardinality({i \in 1..n : prompts[s][i].kind = kind /\ prompts[s][i].trigger = trigger})

\* Those of them that were delivered.
DeliveredBefore(s, kind, trigger, n) ==
    Cardinality({i \in 1..n : /\ prompts[s][i].kind = kind
                              /\ prompts[s][i].trigger = trigger
                              /\ prompts[s][i].ok})

BootstrapOn == superpowersModeEnabled /\ usingSuperpowersSkill /= <<>>

\* Bootstrap pushes are made only with the flag on and the skill present.
BootstrapOnlyWhenOn ==
    \A s \in Sessions : \A i \in 1..Len(prompts[s]) :
        prompts[s][i].kind = "bootstrap" => BootstrapOn

\* Every skills summary comes after a delivered bootstrap of its trigger.
BootstrapBeforeSummary ==
    BootstrapOn =>
        \A s \in Sessions : \A i \in 1..Len(prompts[s]) :
            prompts[s][i].kind = "summary"
                => DeliveredBefore(s, "bootstrap", prompts[s][i].trigger, i - 1)
                      >= PushesBefore(s, "summary", prompts[s][i].trigger, i)

\* A message handler that found history pushes no bootstrap.
NoBootstrapWithHistory ==
    \A h \in Slots :
        (hs[h].kind = "chat" /\ hs[h].saw = "history")
            => hs[h].nBootstrap = 0 /\ hs[h].pc = "done"

\* One bootstrap push for each compaction whose handler got that far.
BootstrapPerCompaction ==
    BootstrapOn =>
        \A s \in Sessions :
            /\ PushesBefore(s, "bootstrap", "compaction", Len(prompts[s])) <= compactions[s]
            /\ \A h \in Slots :
                  (hs[h].kind = "event" /\ hs[h].trigger = "compaction"
                      /\ hs[h].pc = "done" /\ hs[h].result = "ok")
                      => hs[h].nBootstrap = 1

\* One bootstrap push for the initial injection of a session.
BootstrapOncePerSession ==
    BootstrapOn =>
        \A s \in Sessions :
            /\ PushesBefore(s, "bootstrap", "initial", Len(prompts[s])) <= 1
            /\ \A h \in Slots :
                  (hs[h].kind = "chat" /\ hs[h].pc = "done" /\ hs[h].result = "ok")
                      => hs[h].nBootstrap = 1

\* C24.  The bootstrap document is pushed only when the flag is on and the
\* registry holds using-superpowers; then it is pushed exactly once for the
\* initial injection of a new session and once for each compaction event,
\* before the skills summary of that trigger, and never by a handler that
\* found the session to have history.
C24_BootstrapOncePerTrigger ==
    /\ BootstrapOnlyWhenOn
    /\ BootstrapBeforeSummary
    /\ NoBootstrapWithHistory
    /\ BootstrapPerCompaction
    /\ BootstrapOncePerSession
-----------------------------------------------------------------------------
(* The depth of the scan.                                                   *)

\* No directory deeper than maxDepth is listed and no manifest deeper than
\* maxDepth + 1 is returned.
ScanDepthBounded ==
    /\ \A rd \in scan.read : Len(rd[2]) <= MaxDepthOf(rd[1])
    /\ \A k \in 1..Len(scan.results) :
          Len(scan.results[k].relativePath) <= MaxDepthOf(scan.results[k].root) + 1

ScanOver == scan.done = Len(roots)

\* C25.  The scan of every root returns, on every tree, those with an entry
\* that links back to the root included; it lists no directory more than
\* maxDepth levels below the root, and returns no manifest more than
\* maxDepth + 1 levels below it.
C25_ScanTerminatesWithinDepth == []ScanDepthBounded /\ <>ScanOver

C25_Witness ==
    /\ scan.done = 2
    /\ roots[2].links = {<<"b">>}
    /\ roots[2].dirs = {<<"a">>, <<"a", "b">>, <<"a", "b", "a">>}
    /\ roots[2].manifests = {<<"a", "b", "a">>}
    /\ \A k \in 1..Len(scan.results) : scan.results[k].root /= 2
    /\ {rd[2] : rd \in {x \in scan.read : x[1] = 2}} = {<<>>, <<"a">>}
-----------------------------------------------------------------------------
(* Manifests of visited directories.                                        *)

\* The directories the scan of root i came to: the root, and the
\* directories among the entries of every directory it listed.
Visited(i) ==
    {<<>>} \cup {d \in roots[i].dirs : <<i, Dirname(d)>> \in scan.read}

Recorded(i, d) ==
    \E k \in 1..Len(scan.results) :
        scan.results[k].root = i /\ scan.results[k].relativePath = d

\* C26.  For every directory the scan comes to within the depth bound, the
\* root itself first, a manifest directly in that directory is recorded, and
\* the directory is not listed.
C26_VisitedManifestRecorded ==
    \A i \in 1..scan.done :
        roots[i].status = "ok" =>
            \A d \in Visited(i) :
                d \in roots[i].manifests
                    => Recorded(i, d) /\ <<i, d>> \notin scan.read
-----------------------------------------------------------------------------
(* Names of manifests.                                                      *)

\* The name is a non-empty string of a-z, 0-9 and hyphens.
PlainName(name) ==
    /\ Chars[name] /= <<>>
    /\ \A i \in 1..Len(Chars[name]) :
          Chars[name][i] \in AsciiLowercase \cup AsciiDigits \cup {"-"}

\* C27.  A manifest is in the registry only if its name is non-empty and
\* made of the characters a-z, 0-9 and hyphen alone; a name with any other
\* character (upper case, underscore, space, a letter or a digit outside
\* ASCII) is rejected.
C27_OnlyPlainNamesAccepted ==
    /\ \A i \in 1..Len(skillsByName) : PlainName(skillsByName[i].name)
    /\ (phase = "ready" /\ ~PlainName(fsys[1].file.fm.name)) => skillsByName = <<>>
-----------------------------------------------------------------------------
\* C28: parsing a well-formed manifest in directory d, with name d and a
\* non-empty description written bare or between quotes, yields a skill
\* named d, whose description is the description without the quotes, whose
\* path is the manifest's parent directory and whose content is the text
\* after the closing delimiter line, trimmed.
C28_WellFormedManifestParses ==
    parse.done /\ parse.content /= <<>>
    => /\ parse.result /= <<>>
       /\ parse.result[1].name = Chars[Basename(Dirname(parse.skillPath))]
       /\ parse.result[1].description = parse.given.description
       /\ parse.result[1].path = Dirname(parse.skillPath)
       /\ parse.result[1].content = trim(parse.given.body)

\* C28 for the manifests with text after the closing delimiter line only.
C28_ParsesWhenBodyFollows ==
    parse.done /\ parse.given.body /= <<>>
    => /\ parse.result /= <<>>
       /\ parse.result[1].name = Chars[Basename(Dirname(parse.skillPath))]
       /\ parse.result[1].description = parse.given.description
       /\ parse.result[1].path = Dirname(parse.skillPath)
       /\ parse.result[1].content = trim(parse.given.body)
-----------------------------------------------------------------------------
\* C29: for every registry and every identifier ns:n, resolve(ns:n) is
\* nothing or the record resolve(n) yields, and it is a record only when ns
\* is that record's tier label or declared namespace: the look-up never
\* falls back to the bare name.
\* Stated of every identifier for the registry as discovery leaves it, and
\* of the look-up made once one was made.
C29_QualifiedIsBareOrNothing ==
    phase = "ready" =>
        /\ lastResolve.id = <<>> =>
            \A id \in Identifiers :
              Len(id) = 2 =>
                LET qualified == resolveSkill(id, skillsByName)
                    bare == resolveSkill(<<id[2]>>, skillsByName)
                IN  /\ qualified \in {<<>>, bare}
                    /\ qualified /= <<>>
                          => (qualified[1].label = id[1] \/ qualified[1].namespace = id[1])
        /\ Len(lastResolve.id) = 2 =>
              /\ lastResolve.skill \in {<<>>, resolveSkill(<<lastResolve.id[2]>>, skillsByName)}
              /\ lastResolve.skill /= <<>>
                    => \/ lastResolve.skill[1].label = lastResolve.id[1]
                       \/ lastResolve.skill[1].namespace = lastResolve.id[1]

\* The qualified look-up of a registered name came back empty, although the
\* name is registered twice over: under a tier and with a namespace.
C29_Witness ==
    /\ phase = "ready"
    /\ lastResolve.id = <<"user", "a">>
    /\ lastResolve.skill = <<>>
    /\ resolveSkill(<<"a">>, skillsByName) /= <<>>
    /\ resolveSkill(<<"project", "a">>, skillsByName) = resolveSkill(<<"a">>, skillsByName)
    /\ resolveSkill(<<"b">>, skillsByName) /= <<>>
    /\ resolveSkill(<<"user", "b">>, skillsByName) = resolveSkill(<<"b">>, skillsByName)
    /\ resolveSkill(<<"project", "b">>, skillsByName) = resolveSkill(<<"b">>, skillsByName)
-----------------------------------------------------------------------------
(* The initial injection and a transport that raises.                       *)

InitialPushes(ps) == SelectSeq(ps, LAMBDA p : p.trigger = "initial")

\* A session into which an initial push was attempted is marked.
MarkedBeforePush ==
    \A s \in Sessions : InitialPushes(prompts[s]) /= <<>> => s \in injectedSessions

\* One initial injection at most is attempted: one summary, one bootstrap.
InitialAttemptedOnce ==
    \A s \in Sessions :
        /\ PushesBefore(s, "summary", "initial", Len(prompts[s])) <= 1
        /\ PushesBefore(s, "bootstrap", "initial", Len(prompts[s])) <= 1

\* Beyond the initial one, summaries are pushed for compaction events only:
\* one at most for each of them.
SummaryAgainOnlyOnCompaction ==
    \A s \in Sessions :
        /\ \A i \in 1..Len(prompts[s]) :
              prompts[s][i].kind = "summary"
                  => prompts[s][i].trigger \in {"initial", "compaction"}
        /\ PushesBefore(s, "summary", "compaction", Len(prompts[s])) <= compactions[s]

\* Once an initial push of a session was raised, no step pushes for the
\* initial injection of that session again.
NoRetryAfterRaise ==
    \A s \in Sessions :
        RaisedPrompts(s, "initial") /= <<>>
            => InitialPushes(prompts'[s]) = InitialPushes(prompts[s])

\* C30: a session is marked before its initial push is attempted, so the
\* initial injection is attempted at most once per session; when that push
\* is raised by the transport no later message event pushes it again, and
\* further summaries come from compaction events only.
C30_InitialAttemptedOnce ==
    /\ [](MarkedBeforePush /\ InitialAttemptedOnce /\ SummaryAgainOnlyOnCompaction)
    /\ [][NoRetryAfterRaise]_vars
-----------------------------------------------------------------------------
(* Who marks a session.                                                     *)

\* A step that changes the marked sessions is the step of a message handler
\* at the reply to its history query, and it marks that handler's session.
OnlyChatMarks ==
    injectedSessions' /= injectedSessions
        => \E h \in Slots :
              /\ hs[h].kind = "chat" /\ hs[h].pc = "history"
              /\ hs'[h].pc /= "history"
              /\ injectedSessions' = injectedSessions \cup {hs[h].sid}

\* A message handler that starts for a session not marked awaits the
\* history query, whatever was pushed into the session before.
UnmarkedGoesThroughHistory ==
    \A h \in Slots :
        ( /\ started' = started + 1
          /\ hs'[h] /= hs[h]
          /\ hs'[h].kind = "chat"
          /\ hs'[h].sid \notin injectedSessions )
        => hs'[h].pc = "history"

\* A compaction handler that returned without a transport error pushed the
\* summary of a registry that holds a skill, marked session or not.
CompactionPushesUnmarked ==
    \A h \in Slots :
        ( /\ hs[h].kind = "event" /\ hs[h].trigger = "compaction"
          /\ hs[h].pc = "done" /\ hs[h].result = "ok"
          /\ Len(allSkills) > 0 )
        => hs[h].nSummary = 1

\* C31: the compaction handler never changes which sessions are marked: a
\* compaction event for a session not yet observed pushes the skills summary
\* and leaves the session unmarked, the first message observed afterwards
\* goes through the history check, and only the message handler marks.
C31_OnlyMessageHandlerMarks ==
    /\ []CompactionPushesUnmarked
    /\ [][OnlyChatMarks /\ UnmarkedGoesThroughHistory]_vars

\* After a delivered compaction summary for the unmarked session s1, its
\* first message handler awaits the history query.
C31_Witness ==
    /\ "s1" \notin injectedSessions
    /\ DeliveredPrompts("s1", "summary", "compaction") /= <<>>
    /\ \E h \in Slots : hs[h].kind = "chat" /\ hs[h].sid = "s1" /\ hs[h].pc = "history"
-----------------------------------------------------------------------------
\* C32: when a fallback scan of getCurrentModel for session s, started with
\* no model cached, interleaves with a message event for s that carries the
\* model m, the cached model of s once both have returned is m: what the
\* scan read from the history never replaces the model of a message
\* observed more recently.
C32_ScanKeepsFresherModel ==
    \A s \in Sessions :
        ( /\ msgModel[s] /= NoModel
          /\ \A h \in Slots : hs[h].sid = s => Free(h) )
        => sessionModels[s] = msgModel[s]
-----------------------------------------------------------------------------
(* read_skill_file: what the reply says of the read and of the injection.   *)

\* The call in slot h returned and had resolved its skill and path.
ReadReturned(h) ==
    /\ hs[h].kind = "read_skill_file" /\ hs[h].pc = "done"
    /\ hs[h].result \in {"loaded", "file-not-found"}

\* fs.readFile of the call in slot h fulfilled: the injection was begun.
FileWasRead(h) == hs[h].pushKind = "file"

\* The not-found reply is given only when reading the file failed.
NotFoundOnlyWhenUnread ==
    \A h \in Slots :
        (ReadReturned(h) /\ hs[h].result = "file-not-found") => ~FileWasRead(h)

\* The loaded reply follows one read and exactly one delivered injection,
\* and a read file whose injection was delivered gives the loaded reply.
LoadedAfterOneInjection ==
    \A h \in Slots :
        ReadReturned(h)
            => /\ hs[h].result = "loaded"
                    => (FileWasRead(h) /\ hs[h].reads = 1 /\ hs[h].nContent = 1)
               /\ (FileWasRead(h) /\ hs[h].nContent = 1) => hs[h].result = "loaded"

\* C33: read_skill_file gives the not-found reply only when reading the
\* requested file failed; when the file was read, the reply is the loaded
\* confirmation after exactly one injection into the calling session, and
\* a failure of the injection is never reported as the file being not found.
C33_NotFoundMeansUnread == NotFoundOnlyWhenUnread /\ LoadedAfterOneInjection
-----------------------------------------------------------------------------
\* C34: for every query string, those that are no valid regular expression
\* (an unbalanced parenthesis) included, find_skills returns a text, the
\* listing or the no-skills-found message, and never raises.
C34_FindNeverRaises ==
    \A h \in Slots :
        (hs[h].kind = "find_skills" /\ hs[h].pc = "done")
            => hs[h].result \in {"skills", "no-skills-found"}

\* C34 for the queries whose pattern compiles.
C34_FindReturnsTextWhenCompiles ==
    \A h \in Slots :
        (hs[h].kind = "find_skills" /\ hs[h].pc = "done"
            /\ (hs[h].query = <<>> \/ regExpCompiles(hs[h].query)))
            => hs[h].result \in {"skills", "no-skills-found"}
-----------------------------------------------------------------------------
\* C35: a manifest that fails to parse does not reserve its name.  When a
\* source of higher priority holds an invalid manifest in a directory named
\* n and a source of lower priority the first valid skill named n, the
\* registry holds that skill under n, and n resolves to it.
C35_FailedManifestReservesNothing ==
    phase = "ready" =>
        \A i, k \in 1..Len(fsys) :
            ( /\ fsys[i].src < fsys[k].src
              /\ fsys[i].dir = fsys[k].dir
              /\ ~ValidManifest(fsys[i])
              /\ ValidManifest(fsys[k])
              /\ \A j \in 1..(k - 1) :
                    ~(ValidManifest(fsys[j]) /\ fsys[j].dir = fsys[k].dir) )
            => LET kept == MapGet(skillsByName, fsys[k].dir)
               IN  /\ kept /= <<>>
                   /\ kept[1].label = SourceLabel(fsys[k].src)
                   /\ kept[1].path = SourceBase(fsys[k].src) \o <<fsys[k].dir>>
                   /\ kept[1].description = fsys[k].file.fm.description
                   /\ lastResolve.id = <<fsys[k].dir>> => lastResolve.skill = kept

\* The project source holds a manifest without frontmatter in directory a,
\* the user source a valid skill a, and a resolved to the user's.
C35_Witness ==
    /\ phase = "ready"
    /\ fsys[1].src = 1 /\ fsys[1].dir = "a" /\ fsys[1].file = NoFrontmatterFile
    /\ fsys[2].src = 3 /\ fsys[2].dir = "a" /\ fsys[2].file = GoodFile("a", Absent)
    /\ lastResolve.id = <<"a">>
    /\ lastResolve.skill /= <<>>
    /\ lastResolve.skill[1].label = "user"
====
